---- MODULE Spec2Model ----
(***************************************************************************)
(* A model of the algostructs library: the persistent heap family          *)
(* (MinHeap, MaxHeap, CustomHeap, BinaryHeap), PriorityQueue and           *)
(* MaxPriorityQueue, the Sorting suite and the Searching suite.            *)
(*                                                                         *)
(* JavaScript values are records [t, v]: t is the kind of the value and v  *)
(* its integer payload.  Arrays are sequences; the source's 0-based index  *)
(* i is position i + 1 of the sequence, and a read outside the array gives *)
(* undefined, as in JavaScript.                                            *)
(***************************************************************************)
EXTENDS Integers, Sequences, FiniteSets, TLC

VARIABLES objs, mem, last, call

vars == <<objs, mem, last, call>>

(***************************************************************************)
(* Bounds of the model.                                                    *)
(***************************************************************************)
\* values held by heaps and queues are 1 .. MaxVal
MaxVal == 3
\* the longest heap the single-reference specification grows
MaxSize == 5
\* the longest array handed to X.from
MaxFrom == 4
\* the number of instances the object-store specification allocates
MaxObjs == 3
\* values held by the heaps and queues of the object store are 1 .. MaxStoreVal
MaxStoreVal == 2

\* arrays to sort hold the integers -1 .. MaxSortVal
MaxSortVal == 2
\* the longest array to sort, besides those of length SmallArray + 1
MaxSortLen == 3
\* arrays to search hold the integers 0 .. MaxSearchVal
MaxSearchVal == 2
\* the longest array to search
MaxSearchLen == 4
\* the longest pattern of differences that builds a long array to search
MaxPattern == 2

\* the number of Trie instances the trie specification allocates
MaxTries == 3
\* the longest word inserted into or asked of a Trie
MaxWordLen == 2
\* the longest heap and queue the lock-step specification grows
MaxPairSize == 4
\* the longest queue the MaxPriorityQueue specification grows
MaxQueueSize == 4
\* CircularQueue capacities are -1 .. MaxCapacity
MaxCapacity == 3
\* the number of enqueue calls on the CircularQueue
MaxArrivals == 5
\* values held by a BinarySearchTree are 1 .. MaxTreeVal
MaxTreeVal == 4
\* the number of insert and remove calls on the BinarySearchTree
MaxTreeCalls == 5
\* values held by a GeneralTree are 1 .. MaxGeneralVal
MaxGeneralVal == 2
\* the number of insert and insertChild calls on the GeneralTree
MaxGeneralCalls == 4
\* values held by a list are 1 .. MaxListVal
MaxListVal == 2
\* the number of calls on the list
MaxListCalls == 5

(***************************************************************************)
(* JavaScript values.                                                      *)
(***************************************************************************)
Num(n) == [t |-> "number", v |-> n]

Undefined == [t |-> "undefined", v |-> 0]

Null == [t |-> "null", v |-> 0]

NaN == [t |-> "NaN", v |-> 0]

\* a string of length n, an object, a boolean
Str(n) == [t |-> "string", v |-> n]

Obj == [t |-> "object", v |-> 0]

Bool(b) == [t |-> "boolean", v |-> IF b THEN 1 ELSE 0]

\* a function value; v names its body (see Call)
Fn(k) == [t |-> "function", v |-> k]

IsNullish(x) == x.t \in {"null", "undefined"}

\* typeof x === "function"
IsFunction(x) == x.t = "function"

\* ToBoolean(x)
Truthy(x) ==
  CASE x.t \in {"undefined", "null", "NaN"} -> FALSE
    [] x.t \in {"number", "string", "boolean"} -> x.v # 0
    [] OTHER -> TRUE

\* ToNumber(x) for the values a comparator meets
ToNumber(x) ==
  CASE x.t = "number" -> x
    [] x.t = "null" -> Num(0)
    [] x.t = "boolean" -> Num(x.v)
    [] OTHER -> NaN

\* a - b
JSSub(a, b) ==
  LET x == ToNumber(a)
      y == ToNumber(b)
  IN  IF x.t = "NaN" \/ y.t = "NaN" THEN NaN ELSE Num(x.v - y.v)

\* -a
JSNeg(a) == IF a.t = "number" THEN Num(0 - a.v) ELSE a

\* r < 0, r <= 0, r > 0, r === 0 for a comparator result r (all false on NaN)
Lt0(r) == r.t = "number" /\ r.v < 0

Le0(r) == r.t = "number" /\ r.v <= 0

Gt0(r) == r.t = "number" /\ r.v > 0

Eq0(r) == r.t = "number" /\ r.v = 0

(***************************************************************************)
(* Comparators.  Body 1 is the library's default (a, b) => a - b; body 2   *)
(* is the reversed order (a, b) => b - a; body 3 orders numbers by the key *)
(* Math.floor(a / 2), so that distinct elements can have equal priority.   *)
(* Fn(-k) is the closure (a, b) => -compare(a, b) that MaxPriorityQueue    *)
(* builds around body k, and Fn(0) is that closure around a value that is  *)
(* not callable: calling it throws.                                        *)
(***************************************************************************)
HalfKey(a) == IF a.t = "number" THEN Num(a.v \div 2) ELSE a

Body(k, a, b) ==
  CASE k = 1 -> JSSub(a, b)
    [] k = 2 -> JSSub(b, a)
    [] OTHER -> JSSub(HalfKey(a), HalfKey(b))

NumBodies == {1, 2, 3}

Call(f, a, b) ==
  IF f.v > 0 THEN Body(f.v, a, b) ELSE JSNeg(Body(0 - f.v, a, b))

\* calling f throws a TypeError: f is not a function, or it is the closure
\* around a value that is not one
CallThrows(f) == ~IsFunction(f) \/ f.v = 0

\* the closure (a, b) => -compare(a, b)
NegClosure(compare) ==
  IF IsFunction(compare) /\ compare.v # 0 THEN Fn(0 - compare.v) ELSE Fn(0)

(***************************************************************************)
(* Arrays.                                                                 *)
(***************************************************************************)
\* arr[i]
At(arr, i) == IF i >= 0 /\ i < Len(arr) THEN arr[i + 1] ELSE Undefined

\* [arr[i], arr[j]] = [arr[j], arr[i]]
Swap(arr, i, j) == [arr EXCEPT ![i + 1] = arr[j + 1], ![j + 1] = arr[i + 1]]

\* arr.pop()
Pop(arr) == SubSeq(arr, 1, Len(arr) - 1)

\* [...arr].reverse()
RECURSIVE Reverse(_)
Reverse(arr) ==
  IF arr = <<>> THEN <<>> ELSE Append(Reverse(Tail(arr)), Head(arr))

\* all arrays over S of length at most n
RECURSIVE SeqsUpTo(_, _)
SeqsUpTo(S, n) ==
  IF n = 0 THEN {<<>>}
  ELSE LET shorter == SeqsUpTo(S, n - 1)
       IN  shorter \cup {Append(s, x) : s \in {q \in shorter : Len(q) = n - 1}, x \in S}

(***************************************************************************)
(* The object store.  objs is the sequence of the objects allocated so     *)
(* far, an object's reference being its position; mem is the sequence of   *)
(* the JavaScript arrays allocated so far.  An object is a record          *)
(*   cls        its class                                                  *)
(*   compareFn  CustomHeap.compareFn, PriorityQueue.compare                *)
(*   type       BinaryHeap.type                                            *)
(*   elements   the reference of Heap.elements, PriorityQueue.heap         *)
(*   queue      the reference of MaxPriorityQueue.queue                    *)
(* with the fields its class does not have left at "", 0 or undefined.     *)
(***************************************************************************)
HeapClasses == {"MinHeap", "MaxHeap", "CustomHeap", "BinaryHeap"}

NewObject(cls, compareFn, type, elements, queue) ==
  [cls |-> cls, compareFn |-> compareFn, type |-> type,
   elements |-> elements, queue |-> queue]

\* what a method hands back: the store after the call, the exception thrown
\* ("" when none), the reference returned (0 when none) and the element
\* returned
Outcome(o, m, thrown, ret, element) ==
  [objs |-> o, mem |-> m, thrown |-> thrown, ret |-> ret, element |-> element]

\* the array an object holds (the inner queue's, for a MaxPriorityQueue)
ElementsOf(o, m, ref) ==
  IF o[ref].cls = "MaxPriorityQueue"
  THEN m[o[o[ref].queue].elements]
  ELSE m[o[ref].elements]

(***************************************************************************)
(* Heap: compare, bubbleUp, bubbleDown, heapify.                           *)
(***************************************************************************)
\* MinHeap.compare, MaxHeap.compare, CustomHeap.compare, BinaryHeap.compare
Heap_compare(this, a, b) ==
  CASE this.cls = "MinHeap" -> JSSub(a, b)
    [] this.cls = "MaxHeap" -> JSSub(b, a)
    [] this.cls = "CustomHeap" -> Call(this.compareFn, a, b)
    [] OTHER -> LET diff == JSSub(a, b)
                IN  IF this.type = "min" THEN diff ELSE JSNeg(diff)

\* Fault injection for C1: bubbleUp with the parent taken as floor(index / 2),
\* the formula of a 1-based heap
RECURSIVE Heap_bubbleUp_OneBasedParent(_, _, _)
Heap_bubbleUp_OneBasedParent(this, heap, index) ==
  IF index > 0
  THEN LET parentIndex == index \div 2
       IN  IF Le0(Heap_compare(this, At(heap, parentIndex), At(heap, index)))
           THEN heap
           ELSE Heap_bubbleUp_OneBasedParent(this, Swap(heap, parentIndex, index),
                                             parentIndex)
  ELSE heap

RECURSIVE Heap_bubbleUp(_, _, _)
Heap_bubbleUp(this, heap, index) ==
  IF index > 0
  THEN LET parentIndex == (index - 1) \div 2
       IN  IF Le0(Heap_compare(this, At(heap, parentIndex), At(heap, index)))
           THEN heap
           ELSE Heap_bubbleUp(this, Swap(heap, parentIndex, index), parentIndex)
  ELSE heap

\* Fault injection for C6: the right child compared with the node instead of
\* with the smaller of the node and its left child
SmallestOf_RightAgainstNode(this, arr, index, length) ==
  LET leftChild == 2 * index + 1
      rightChild == 2 * index + 2
  IN  IF rightChild < length
         /\ Lt0(Heap_compare(this, At(arr, rightChild), At(arr, index)))
      THEN rightChild
      ELSE IF leftChild < length
              /\ Lt0(Heap_compare(this, At(arr, leftChild), At(arr, index)))
      THEN leftChild ELSE index

\* the child bubbleDown and heapify swap with: index itself when neither
\* child is smaller
SmallestOf(this, arr, index, length) ==
  LET leftChild == 2 * index + 1
      rightChild == 2 * index + 2
      afterLeft ==
        IF leftChild < length
           /\ Lt0(Heap_compare(this, At(arr, leftChild), At(arr, index)))
        THEN leftChild ELSE index
  IN  IF rightChild < length
         /\ Lt0(Heap_compare(this, At(arr, rightChild), At(arr, afterLeft)))
      THEN rightChild ELSE afterLeft

\* heapify(arr, i, size): bubble down within the first size slots of arr
RECURSIVE Heap_heapify(_, _, _, _)
Heap_heapify(this, arr, i, size) ==
  LET smallest == SmallestOf(this, arr, i, size)
  IN  IF smallest = i THEN arr
      ELSE Heap_heapify(this, Swap(arr, i, smallest), smallest, size)

RECURSIVE Heap_bubbleDown(_, _, _)
Heap_bubbleDown(this, heap, index) ==
  LET minIndex == SmallestOf(this, heap, index, Len(heap))
  IN  IF minIndex = index THEN heap
      ELSE Heap_bubbleDown(this, Swap(heap, index, minIndex), minIndex)

\* the loop of [Symbol.iterator]: for (i = size - 1; i > 0; i--)
RECURSIVE IteratorLoop(_, _, _)
IteratorLoop(this, elements, i) ==
  IF i > 0
  THEN IteratorLoop(this, Heap_heapify(this, Swap(elements, 0, i), 0, i), i - 1)
  ELSE elements

\* Fault injection for C21: the iterator yielding the heap-sorted copy
\* without reversing it
Heap_iterator_NoReverse(this, elements) ==
  IteratorLoop(this, elements, Len(elements) - 1)

\* [...heap]: the sequence the iterator yields, computed on a copy
Heap_iterator(this, elements) ==
  Reverse(IteratorLoop(this, elements, Len(elements) - 1))

\* the loop of X.from: for (i = floor(n / 2) - 1; i >= 0; i--) bubbleDown(i)
RECURSIVE FromLoop(_, _, _)
FromLoop(this, elements, i) ==
  IF i >= 0
  THEN FromLoop(this, Heap_bubbleDown(this, elements, i), i - 1)
  ELSE elements

(***************************************************************************)
(* Heap: the public methods, as transformers of the object store.          *)
(***************************************************************************)
\* new MinHeap(), new MaxHeap(), new CustomHeap(compareFn), new BinaryHeap(type):
\* Heap's constructor sets this.elements = []
Heap_constructor(o, m, cls, compareFn, type) ==
  LET m1 == Append(m, <<>>)
  IN  Outcome(Append(o, NewObject(cls, compareFn, type, Len(m1), 0)),
              m1, "", Len(o) + 1, Undefined)

\* Fault injection for C2: clone that hands the new instance the receiver's
\* own array instead of a copy
Heap_clone_SharedArray(o, m, this) ==
  Outcome(Append(o, o[this]), m, "", Len(o) + 1, Undefined)

\* clone(): a new instance of the same class, then
\* newHeap.elements.push(...this.elements)
Heap_clone(o, m, this) ==
  LET c == Heap_constructor(o, m, o[this].cls, o[this].compareFn, o[this].type)
      ref == c.objs[c.ret].elements
  IN  Outcome(c.objs,
              [c.mem EXCEPT ![ref] = c.mem[ref] \o m[o[this].elements]],
              "", c.ret, Undefined)

Heap_size(o, m, this) == Len(m[o[this].elements])

Heap_isEmpty(o, m, this) == Len(m[o[this].elements]) = 0

Heap_peek(o, m, this) == At(m[o[this].elements], 0)

\* Fault injection for C10: add that rejects null only
Heap_add_NullOnly(o, m, this, element) ==
  IF element.t = "null"
  THEN Outcome(o, m, "TypeError", 0, Undefined)
  ELSE LET newHeap == Heap_clone(o, m, this)
           ref == newHeap.objs[newHeap.ret].elements
           pushed == [newHeap.mem EXCEPT ![ref] = Append(newHeap.mem[ref], element)]
       IN  Outcome(newHeap.objs, pushed, "", newHeap.ret, Undefined)

Heap_add(o, m, this, element) ==
  IF IsNullish(element)
  THEN Outcome(o, m, "TypeError", 0, Undefined)
  ELSE LET newHeap == Heap_clone(o, m, this)
           ref == newHeap.objs[newHeap.ret].elements
           pushed == [newHeap.mem EXCEPT ![ref] = Append(newHeap.mem[ref], element)]
           bubbled == [pushed EXCEPT ![ref] =
                         Heap_bubbleUp(o[this], pushed[ref], Len(pushed[ref]) - 1)]
       IN  Outcome(newHeap.objs, bubbled, "", newHeap.ret, Undefined)

\* Fault injection for C20: remove that overwrites the root with the last
\* element and leaves the last element in place
Heap_remove_NoPop(o, m, this) ==
  IF Heap_isEmpty(o, m, this)
  THEN Heap_clone(o, m, this)
  ELSE LET newHeap == Heap_clone(o, m, this)
           ref == newHeap.objs[newHeap.ret].elements
           elements == newHeap.mem[ref]
           element == At(elements, 0)
           moved == [newHeap.mem EXCEPT ![ref] =
                       [elements EXCEPT ![1] = At(elements, Len(elements) - 1)]]
           sifted == [moved EXCEPT ![ref] = Heap_bubbleDown(o[this], moved[ref], 0)]
       IN  Outcome(newHeap.objs, sifted, "", newHeap.ret, element)

\* remove()
Heap_remove(o, m, this) ==
  IF Heap_isEmpty(o, m, this)
  THEN Heap_clone(o, m, this)
  ELSE LET newHeap == Heap_clone(o, m, this)
           ref == newHeap.objs[newHeap.ret].elements
           elements == newHeap.mem[ref]
           element == At(elements, 0)
           moved == [newHeap.mem EXCEPT ![ref] =
                       [elements EXCEPT ![1] = At(elements, Len(elements) - 1)]]
           popped == [moved EXCEPT ![ref] = Pop(moved[ref])]
           sifted == IF Len(popped[ref]) > 0
                     THEN [popped EXCEPT ![ref] = Heap_bubbleDown(o[this], popped[ref], 0)]
                     ELSE popped
       IN  Outcome(newHeap.objs, sifted, "", newHeap.ret, element)

Heap_clear(o, m, this) == Heap_clone(o, m, this)

\* MinHeap.from, MaxHeap.from, CustomHeap.from, BinaryHeap.from (the four are
\* the same code): heap.elements = [...elements], then the heapify loop
Heap_from(o, m, cls, compareFn, type, elements) ==
  LET heap == Heap_constructor(o, m, cls, compareFn, type)
      copied == Append(heap.mem, elements)
      ref == Len(copied)
      obj == [heap.objs[heap.ret] EXCEPT !.elements = ref]
      heapified == [copied EXCEPT ![ref] =
                      FromLoop(obj, copied[ref], (Len(copied[ref]) \div 2) - 1)]
  IN  Outcome([heap.objs EXCEPT ![heap.ret] = obj], heapified, "", heap.ret, Undefined)

(***************************************************************************)
(* PriorityQueue.  A call of this.compare throws a TypeError when the      *)
(* stored comparator is not callable; bubbleUp calls it as soon as         *)
(* index > 0 and bubbleDown as soon as the heap has a left child.          *)
(***************************************************************************)
\* the default parameter value: compare = (a, b) => a - b when the argument
\* is undefined (or missing)
DefaultCompare(arg) == IF arg.t = "undefined" THEN Fn(1) ELSE arg

\* if (compare && typeof compare !== "function") throw new TypeError(...)
PriorityQueue_rejects(compare) == Truthy(compare) /\ ~IsFunction(compare)

PriorityQueue_constructor(o, m, arg) ==
  LET compare == DefaultCompare(arg)
  IN  IF PriorityQueue_rejects(compare)
      THEN Outcome(o, m, "TypeError", 0, Undefined)
      ELSE LET m1 == Append(m, <<>>)
           IN  Outcome(Append(o, NewObject("PriorityQueue", compare, "", Len(m1), 0)),
                       m1, "", Len(o) + 1, Undefined)

\* Fault injection for C22: bubbleUp that stops only at a parent of strictly
\* higher priority
RECURSIVE PriorityQueue_bubbleUp_PastEqual(_, _, _)
PriorityQueue_bubbleUp_PastEqual(this, heap, index) ==
  IF index > 0
  THEN LET parentIndex == (index - 1) \div 2
       IN  IF Lt0(Call(this.compareFn, At(heap, parentIndex), At(heap, index)))
           THEN heap
           ELSE PriorityQueue_bubbleUp_PastEqual(
                  this, Swap(heap, parentIndex, index), parentIndex)
  ELSE heap

RECURSIVE PriorityQueue_bubbleUp(_, _, _)
PriorityQueue_bubbleUp(this, heap, index) ==
  IF index > 0
  THEN LET parentIndex == (index - 1) \div 2
       IN  IF Le0(Call(this.compareFn, At(heap, parentIndex), At(heap, index)))
           THEN heap
           ELSE PriorityQueue_bubbleUp(this, Swap(heap, parentIndex, index), parentIndex)
  ELSE heap

RECURSIVE PriorityQueue_bubbleDown(_, _, _)
PriorityQueue_bubbleDown(this, heap, index) ==
  LET length == Len(heap)
      leftChild == 2 * index + 1
      rightChild == 2 * index + 2
      afterLeft ==
        IF leftChild < length
           /\ Lt0(Call(this.compareFn, At(heap, leftChild), At(heap, index)))
        THEN leftChild ELSE index
      smallest ==
        IF rightChild < length
           /\ Lt0(Call(this.compareFn, At(heap, rightChild), At(heap, afterLeft)))
        THEN rightChild ELSE afterLeft
  IN  IF smallest = index THEN heap
      ELSE PriorityQueue_bubbleDown(this, Swap(heap, index, smallest), smallest)

PriorityQueue_size(o, m, this) == Len(m[o[this].elements])

PriorityQueue_peek(o, m, this) == At(m[o[this].elements], 0)

\* Fault injection for C32: enqueue rejecting null only
PriorityQueue_enqueue_NullOnly(o, m, this, element) ==
  IF element = Null
  THEN Outcome(o, m, "TypeError", 0, Undefined)
  ELSE LET newHeap == Append(m[o[this].elements], element)
           newPQ == PriorityQueue_constructor(o, m, o[this].compareFn)
       IN  IF newPQ.thrown # "" THEN newPQ
           ELSE IF Len(newHeap) > 1 /\ CallThrows(o[this].compareFn)
           THEN Outcome(o, m, "TypeError", 0, Undefined)
           ELSE LET ref == newPQ.objs[newPQ.ret].elements
                    pushed == [newPQ.mem EXCEPT ![ref] = newPQ.mem[ref] \o newHeap]
                IN  Outcome(newPQ.objs,
                            [pushed EXCEPT ![ref] =
                               PriorityQueue_bubbleUp(o[this], pushed[ref],
                                                      Len(pushed[ref]) - 1)],
                            "", newPQ.ret, Undefined)

\* enqueue(element)
PriorityQueue_enqueue(o, m, this, element) ==
  IF IsNullish(element)
  THEN Outcome(o, m, "TypeError", 0, Undefined)
  ELSE LET newHeap == Append(m[o[this].elements], element)
           newPQ == PriorityQueue_constructor(o, m, o[this].compareFn)
       IN  IF newPQ.thrown # "" THEN newPQ
           ELSE IF Len(newHeap) > 1 /\ CallThrows(o[this].compareFn)
           THEN Outcome(o, m, "TypeError", 0, Undefined)
           ELSE LET ref == newPQ.objs[newPQ.ret].elements
                    pushed == [newPQ.mem EXCEPT ![ref] = newPQ.mem[ref] \o newHeap]
                IN  Outcome(newPQ.objs,
                            [pushed EXCEPT ![ref] =
                               PriorityQueue_bubbleUp(o[this], pushed[ref],
                                                      Len(pushed[ref]) - 1)],
                            "", newPQ.ret, Undefined)

PriorityQueue_dequeue(o, m, this) ==
  IF Len(m[o[this].elements]) = 0
  THEN PriorityQueue_constructor(o, m, o[this].compareFn)
  ELSE LET heap == m[o[this].elements]
           element == At(heap, 0)
           newHeap == Pop([heap EXCEPT ![1] = At(heap, Len(heap) - 1)])
           newPQ == PriorityQueue_constructor(o, m, o[this].compareFn)
       IN  IF newPQ.thrown # "" THEN newPQ
           ELSE IF Len(newHeap) > 1 /\ CallThrows(o[this].compareFn)
           THEN Outcome(o, m, "TypeError", 0, Undefined)
           ELSE LET ref == newPQ.objs[newPQ.ret].elements
                    pushed == [newPQ.mem EXCEPT ![ref] = newPQ.mem[ref] \o newHeap]
                IN  Outcome(newPQ.objs,
                            IF Len(pushed[ref]) > 0
                            THEN [pushed EXCEPT ![ref] =
                                    PriorityQueue_bubbleDown(o[this], pushed[ref], 0)]
                            ELSE pushed,
                            "", newPQ.ret, element)

PriorityQueue_clear(o, m, this) ==
  PriorityQueue_constructor(o, m, o[this].compareFn)

\* [Symbol.iterator]: a working queue holding a copy of this.heap is dequeued
\* until it is empty; heap is that working queue's array
\* the loop of [Symbol.iterator] on the working queue's heap: the elements
\* yielded, and whether the loop stopped advancing, which it does when
\* dequeue() of the non-empty working queue returns the element undefined
\* (nothing is yielded, current stays as it is, and the loop never ends)
RECURSIVE PriorityQueue_iteratorLoop(_, _)
PriorityQueue_iteratorLoop(this, heap) ==
  IF Len(heap) = 0 THEN [yielded |-> <<>>, stuck |-> FALSE]
  ELSE IF At(heap, 0) = Undefined THEN [yielded |-> <<>>, stuck |-> TRUE]
  ELSE LET newHeap == Pop([heap EXCEPT ![1] = At(heap, Len(heap) - 1)])
           rest == IF Len(newHeap) > 0
                   THEN PriorityQueue_bubbleDown(this, newHeap, 0)
                   ELSE newHeap
           later == PriorityQueue_iteratorLoop(this, rest)
       IN  [later EXCEPT !.yielded = <<At(heap, 0)>> \o @]

\* [...queue]: the elements yielded
PriorityQueue_iterator(this, heap) == PriorityQueue_iteratorLoop(this, heap).yielded

\* elements.reduce((queue, element) => queue.enqueue(element), queue) from
\* index i on
RECURSIVE FromReduce(_, _, _, _, _)
FromReduce(o, m, queue, elements, i) ==
  IF i >= Len(elements) THEN Outcome(o, m, "", queue, Undefined)
  ELSE LET out == PriorityQueue_enqueue(o, m, queue, elements[i + 1])
       IN  IF out.thrown # "" THEN out
           ELSE FromReduce(out.objs, out.mem, out.ret, elements, i + 1)

\* PriorityQueue.from(elements, compare) for an array elements
PriorityQueue_from(o, m, elements, compare) ==
  LET queue == PriorityQueue_constructor(o, m, compare)
  IN  IF queue.thrown # "" THEN queue
      ELSE FromReduce(queue.objs, queue.mem, queue.ret, elements, 0)

(***************************************************************************)
(* MaxPriorityQueue.  enqueue and dequeue build the result with            *)
(* new MaxPriorityQueue() and then overwrite its queue field: the inner    *)
(* queue that constructor made is unreachable at once and is not kept in   *)
(* the store.                                                              *)
(***************************************************************************)
MaxPriorityQueue_constructor(o, m, arg) ==
  LET compare == DefaultCompare(arg)
      queue == PriorityQueue_constructor(o, m, NegClosure(compare))
  IN  IF queue.thrown # "" THEN queue
      ELSE Outcome(Append(queue.objs,
                          NewObject("MaxPriorityQueue", Undefined, "", 0, queue.ret)),
                   queue.mem, "", Len(queue.objs) + 1, Undefined)

MaxPriorityQueue_enqueue(o, m, this, element) ==
  LET newQueue == PriorityQueue_enqueue(o, m, o[this].queue, element)
  IN  IF newQueue.thrown # "" THEN newQueue
      ELSE Outcome(Append(newQueue.objs,
                          NewObject("MaxPriorityQueue", Undefined, "", 0, newQueue.ret)),
                   newQueue.mem, "", Len(newQueue.objs) + 1, Undefined)

\* Fault injection for C23: dequeue whose result keeps the comparator of the
\* inner queue that new MaxPriorityQueue() made, the negated default
MaxPriorityQueue_dequeue_DefaultComparator(o, m, this) ==
  LET r == PriorityQueue_dequeue(o, m, o[this].queue)
  IN  IF r.thrown # "" THEN r
      ELSE Outcome(Append([r.objs EXCEPT ![r.ret].compareFn = NegClosure(Fn(1))],
                          NewObject("MaxPriorityQueue", Undefined, "", 0, r.ret)),
                   r.mem, "", Len(r.objs) + 1, r.element)

\* dequeue()
MaxPriorityQueue_dequeue(o, m, this) ==
  LET r == PriorityQueue_dequeue(o, m, o[this].queue)
  IN  IF r.thrown # "" THEN r
      ELSE Outcome(Append(r.objs,
                          NewObject("MaxPriorityQueue", Undefined, "", 0, r.ret)),
                   r.mem, "", Len(r.objs) + 1, r.element)

(***************************************************************************)
(* CircularQueue.  An instance is the record [cls, capacity, elements],    *)
(* elements being the reference of its array.                              *)
(***************************************************************************)
\* new CircularQueue(capacity)
CircularQueue_constructor(o, m, capacity) ==
  IF capacity < 1
  THEN Outcome(o, m, "Capacity must be at least 1", 0, Undefined)
  ELSE Outcome(Append(o, [cls |-> "CircularQueue", capacity |-> capacity,
                          elements |-> Len(m) + 1]),
               Append(m, <<>>), "", Len(o) + 1, Undefined)

CircularQueue_isEmpty(o, m, this) == Len(m[o[this].elements]) = 0

CircularQueue_isFull(o, m, this) == Len(m[o[this].elements]) = o[this].capacity

CircularQueue_size(o, m, this) == Len(m[o[this].elements])

CircularQueue_getCapacity(o, m, this) == o[this].capacity

\* [...queue]
CircularQueue_iterator(o, m, this) == m[o[this].elements]

\* Fault injection for C26: enqueue on a full queue dropping the newest
\* element held, newElements.pop(), instead of the oldest
CircularQueue_enqueue_DropsNewest(o, m, this, element) ==
  LET newQueue == CircularQueue_constructor(o, m, o[this].capacity)
      copy == m[o[this].elements]
      newElements == Append(IF Len(copy) = o[this].capacity THEN Pop(copy) ELSE copy,
                            element)
  IN  IF newQueue.thrown # "" THEN newQueue
      ELSE [newQueue EXCEPT !.mem[newQueue.objs[newQueue.ret].elements] =
                              @ \o newElements]

\* enqueue(element)
CircularQueue_enqueue(o, m, this, element) ==
  LET newQueue == CircularQueue_constructor(o, m, o[this].capacity)
      copy == m[o[this].elements]
      newElements == Append(IF Len(copy) = o[this].capacity THEN Tail(copy) ELSE copy,
                            element)
  IN  IF newQueue.thrown # "" THEN newQueue
      ELSE [newQueue EXCEPT !.mem[newQueue.objs[newQueue.ret].elements] =
                              @ \o newElements]

\* dequeue(): ret is the queue and element the element of the pair returned
CircularQueue_dequeue(o, m, this) ==
  LET newQueue == CircularQueue_constructor(o, m, o[this].capacity)
  IN  IF CircularQueue_isEmpty(o, m, this) \/ newQueue.thrown # "" THEN newQueue
      ELSE [newQueue EXCEPT !.mem[newQueue.objs[newQueue.ret].elements] =
                              @ \o Tail(m[o[this].elements]),
                            !.element = Head(m[o[this].elements])]

(***************************************************************************)
(* Sorting.  A function returns Returned(array) or Threw(error).           *)
(***************************************************************************)
Returned(value) == [thrown |-> "", value |-> value]

Threw(error) == [thrown |-> error, value |-> <<>>]

\* quickSort: do { i++ } while (compare(result[i], pivot) < 0), entered with
\* i already incremented once
RECURSIVE ScanUp(_, _, _, _)
ScanUp(result, compare, pivot, i) ==
  IF Lt0(Call(compare, At(result, i), pivot))
  THEN ScanUp(result, compare, pivot, i + 1)
  ELSE i

\* quickSort: do { j-- } while (compare(result[j], pivot) > 0)
RECURSIVE ScanDown(_, _, _, _)
ScanDown(result, compare, pivot, j) ==
  IF Gt0(Call(compare, At(result, j), pivot))
  THEN ScanDown(result, compare, pivot, j - 1)
  ELSE j

\* the while (true) loop of partition: the array and the index returned
RECURSIVE PartitionLoop(_, _, _, _, _)
PartitionLoop(result, compare, pivot, i, j) ==
  LET i1 == ScanUp(result, compare, pivot, i + 1)
      j1 == ScanDown(result, compare, pivot, j - 1)
  IN  IF i1 >= j1 THEN [result |-> result, p |-> j1, i |-> i1, j |-> j1]
      ELSE PartitionLoop(Swap(result, i1, j1), compare, pivot, i1, j1)

\* Fault injection for C31: partition with the last element of the range as
\* the pivot
partition_PivotAtHigh(result, compare, low, high) ==
  PartitionLoop(result, compare, At(result, high), low - 1, high + 1)

\* partition(low, high): the array, the index p returned and the values of
\* the scan indices i and j at the return, the largest i and the smallest j
\* of the call
partition(result, compare, low, high) ==
  PartitionLoop(result, compare, At(result, (low + high) \div 2), low - 1, high + 1)

\* the inner function sort(low, high) of quickSort
RECURSIVE QuickSortRange(_, _, _, _)
QuickSortRange(result, compare, low, high) ==
  IF low < high
  THEN LET part == partition(result, compare, low, high)
       IN  QuickSortRange(QuickSortRange(part.result, compare, low, part.p),
                          compare, part.p + 1, high)
  ELSE result

Sorting_quickSort(arr, compare) ==
  IF Len(arr) <= 1 THEN Returned(arr)
  ELSE Returned(QuickSortRange(arr, compare, 0, Len(arr) - 1))

\* Fault injection for C12: a merge that takes from the left run only when
\* its head compares strictly less than the right run's head
RECURSIVE merge_StrictLess(_, _, _)
merge_StrictLess(left, right, compare) ==
  IF left # <<>> /\ right # <<>>
  THEN IF Lt0(Call(compare, Head(left), Head(right)))
       THEN <<Head(left)>> \o merge_StrictLess(Tail(left), right, compare)
       ELSE <<Head(right)>> \o merge_StrictLess(left, Tail(right), compare)
  ELSE left \o right

\* the inner function merge(left, right) of mergeSort
RECURSIVE merge(_, _, _)
merge(left, right, compare) ==
  IF left # <<>> /\ right # <<>>
  THEN IF Le0(Call(compare, Head(left), Head(right)))
       THEN <<Head(left)>> \o merge(Tail(left), right, compare)
       ELSE <<Head(right)>> \o merge(left, Tail(right), compare)
  ELSE left \o right

RECURSIVE MergeSortRec(_, _)
MergeSortRec(arr, compare) ==
  IF Len(arr) <= 1 THEN arr
  ELSE LET mid == Len(arr) \div 2
       IN  merge(MergeSortRec(SubSeq(arr, 1, mid), compare),
                 MergeSortRec(SubSeq(arr, mid + 1, Len(arr)), compare),
                 compare)

Sorting_mergeSort(arr, compare) == Returned(MergeSortRec(arr, compare))

\* the inner function heapify(n, i) of heapSort
RECURSIVE heapify(_, _, _, _)
heapify(result, compare, n, i) ==
  LET left == 2 * i + 1
      right == 2 * i + 2
      afterLeft ==
        IF left < n /\ Gt0(Call(compare, At(result, left), At(result, i)))
        THEN left ELSE i
      largest ==
        IF right < n /\ Gt0(Call(compare, At(result, right), At(result, afterLeft)))
        THEN right ELSE afterLeft
  IN  IF largest # i
      THEN heapify(Swap(result, i, largest), compare, n, largest)
      ELSE result

\* heapSort: for (i = floor(n / 2) - 1; i >= 0; i--) heapify(n, i); i is an
\* index of result throughout, and reading the length here keeps the
\* evaluation of the array from nesting
RECURSIVE BuildMaxHeap(_, _, _)
BuildMaxHeap(result, compare, i) ==
  IF i >= 0 /\ i < Len(result)
  THEN BuildMaxHeap(heapify(result, compare, Len(result), i), compare, i - 1)
  ELSE result

\* heapSort: for (i = n - 1; i > 0; i--) { swap(0, i); heapify(i, 0) }
RECURSIVE ExtractLoop(_, _, _)
ExtractLoop(result, compare, i) ==
  IF i > 0 /\ i < Len(result)
  THEN ExtractLoop(heapify(Swap(result, 0, i), compare, i, 0), compare, i - 1)
  ELSE result

Sorting_heapSort(arr, compare) ==
  Returned(ExtractLoop(BuildMaxHeap(arr, compare, (Len(arr) \div 2) - 1),
                       compare, Len(arr) - 1))

\* Fault injection for C3: the shifting loop of insertionSort stopping at
\* j > 0, so that no key reaches index 0
RECURSIVE ShiftLoop_StopsAtOne(_, _, _, _)
ShiftLoop_StopsAtOne(result, compare, key, j) ==
  IF j > 0 /\ Gt0(Call(compare, At(result, j), key))
  THEN ShiftLoop_StopsAtOne([result EXCEPT ![j + 2] = result[j + 1]],
                            compare, key, j - 1)
  ELSE [result EXCEPT ![j + 2] = key]

\* insertionSort: while (j >= 0 && compare(result[j], key) > 0) shift right;
\* then result[j + 1] = key
RECURSIVE ShiftLoop(_, _, _, _)
ShiftLoop(result, compare, key, j) ==
  IF j >= 0 /\ Gt0(Call(compare, At(result, j), key))
  THEN ShiftLoop([result EXCEPT ![j + 2] = result[j + 1]], compare, key, j - 1)
  ELSE [result EXCEPT ![j + 2] = key]

\* insertionSort: for (i = 1; i < result.length; i++)
RECURSIVE InsertLoop(_, _, _)
InsertLoop(result, compare, i) ==
  IF i < Len(result)
  THEN InsertLoop(ShiftLoop(result, compare, At(result, i), i - 1), compare, i + 1)
  ELSE result

Sorting_insertionSort(arr, compare) == Returned(InsertLoop(arr, compare, 1))

\* Math.max(...arr) of a non-empty array of numbers
RECURSIVE MathMax(_)
MathMax(arr) ==
  IF Len(arr) = 1 THEN arr[1].v
  ELSE LET rest == MathMax(Tail(arr))
       IN  IF arr[1].v > rest THEN arr[1].v ELSE rest

\* countingSort: for (const num of arr) count[num]++, from position k on
RECURSIVE CountLoop(_, _, _)
CountLoop(count, arr, k) ==
  IF k > Len(arr) THEN count
  ELSE CountLoop([count EXCEPT ![arr[k].v + 1] = @ + 1], arr, k + 1)

\* countingSort: for (i = 1; i < count.length; i++) count[i] += count[i - 1]
RECURSIVE CumulateLoop(_, _)
CumulateLoop(count, i) ==
  IF i < Len(count)
  THEN CumulateLoop([count EXCEPT ![i + 1] = @ + count[i]], i + 1)
  ELSE count

\* countingSort: for (i = arr.length - 1; i >= 0; i--)
\*   { result[count[arr[i]] - 1] = arr[i]; count[arr[i]]-- }
RECURSIVE PlaceLoop(_, _, _, _)
PlaceLoop(result, count, arr, i) ==
  IF i >= 0
  THEN LET num == arr[i + 1].v
       IN  PlaceLoop([result EXCEPT ![count[num + 1]] = arr[i + 1]],
                     [count EXCEPT ![num + 1] = @ - 1], arr, i - 1)
  ELSE result

\* arr.some((n) => n < 0)
SomeNegative(arr) == \E k \in 1..Len(arr) : arr[k].t = "number" /\ arr[k].v < 0

Sorting_countingSort(arr) ==
  IF Len(arr) <= 1 THEN Returned(arr)
  ELSE IF SomeNegative(arr)
  THEN Threw("Counting sort only works with non-negative integers")
  ELSE LET max == MathMax(arr)
           count == CumulateLoop(CountLoop([k \in 1..(max + 1) |-> 0], arr, 1), 1)
       IN  Returned(PlaceLoop([k \in 1..Len(arr) |-> Undefined], count, arr,
                              Len(arr) - 1))

\* the length up to which sort uses insertionSort
SmallArray == 10

\* Fault injection for C15: sort handing arrays of length SmallArray to
\* quickSort
Sorting_sort_StrictLimit(arr, compare) ==
  IF Len(arr) < SmallArray
  THEN Sorting_insertionSort(arr, compare)
  ELSE Sorting_quickSort(arr, compare)

Sorting_sort(arr, compare) ==
  IF Len(arr) <= SmallArray
  THEN Sorting_insertionSort(arr, compare)
  ELSE Sorting_quickSort(arr, compare)

\* isSorted(arr, compare)
Sorting_isSorted(arr, compare) ==
  \A i \in 1..(Len(arr) - 1) : ~Gt0(Call(compare, At(arr, i - 1), At(arr, i)))

(***************************************************************************)
(* Searching.  A SearchResult is a record { element, index, comparisons }; *)
(* half says that index carries the fraction 0.5 on top of its integer     *)
(* part, and thrown names the error when the function throws instead.      *)
(* calls is not a field of the result: it counts the comparator            *)
(* invocations the search made after its validation scan, which is the     *)
(* value of comparisons unless a return site says otherwise.               *)
(***************************************************************************)
SearchResult(element, index, comparisons) ==
  [thrown |-> "", element |-> element, index |-> index, half |-> FALSE,
   comparisons |-> comparisons, calls |-> comparisons, probes |-> <<>>]

\* a throw of the validation scan: the search proper has not started
SearchThrew(error) ==
  [thrown |-> error, element |-> Undefined, index |-> 0, half |-> FALSE,
   comparisons |-> 0, calls |-> 0, probes |-> <<>>]

\* n comparator invocations that ran without comparisons++
Uncounted(result, n) == [result EXCEPT !.calls = @ + n]

\* Fault injection for C11: a validation scan that looks at the first
\* adjacent pair only
ScanFindsUnsorted_FirstPairOnly(arr, compare) ==
  Len(arr) >= 2 /\ Gt0(Call(compare, At(arr, 0), At(arr, 1)))

\* the validation scan: some i with compare(arr[i - 1], arr[i]) > 0
ScanFindsUnsorted(arr, compare) ==
  \E i \in 1..(Len(arr) - 1) : Gt0(Call(compare, At(arr, i - 1), At(arr, i)))

\* Fault injection for C4: the probe loop of binarySearch running while
\* left < right, so that a range of one element is never probed
RECURSIVE BinaryLoop_StrictBound(_, _, _, _, _, _)
BinaryLoop_StrictBound(arr, target, compare, left, right, comparisons) ==
  IF left < right
  THEN LET mid == left + ((right - left) \div 2)
           comparison == Call(compare, At(arr, mid), target)
       IN  IF Eq0(comparison)
           THEN SearchResult(At(arr, mid), mid, comparisons + 1)
           ELSE IF Lt0(comparison)
           THEN BinaryLoop_StrictBound(arr, target, compare, mid + 1, right,
                                       comparisons + 1)
           ELSE BinaryLoop_StrictBound(arr, target, compare, left, mid - 1,
                                       comparisons + 1)
  ELSE SearchResult(Undefined, -1, comparisons)

\* Fault injection for C16: the probe loop of binarySearch moving left up by
\* one instead of past mid
RECURSIVE BinaryLoop_CreepingLeft(_, _, _, _, _, _)
BinaryLoop_CreepingLeft(arr, target, compare, left, right, comparisons) ==
  IF left <= right
  THEN LET mid == left + ((right - left) \div 2)
           comparison == Call(compare, At(arr, mid), target)
       IN  IF Eq0(comparison)
           THEN SearchResult(At(arr, mid), mid, comparisons + 1)
           ELSE IF Lt0(comparison)
           THEN BinaryLoop_CreepingLeft(arr, target, compare, left + 1, right,
                                        comparisons + 1)
           ELSE BinaryLoop_CreepingLeft(arr, target, compare, left, mid - 1,
                                        comparisons + 1)
  ELSE SearchResult(Undefined, -1, comparisons)

\* binarySearch: while (left <= right)
RECURSIVE BinaryLoop(_, _, _, _, _, _)
BinaryLoop(arr, target, compare, left, right, comparisons) ==
  IF left <= right
  THEN LET mid == left + ((right - left) \div 2)
           comparison == Call(compare, At(arr, mid), target)
       IN  IF Eq0(comparison)
           THEN SearchResult(At(arr, mid), mid, comparisons + 1)
           ELSE IF Lt0(comparison)
           THEN BinaryLoop(arr, target, compare, mid + 1, right, comparisons + 1)
           ELSE BinaryLoop(arr, target, compare, left, mid - 1, comparisons + 1)
  ELSE SearchResult(Undefined, -1, comparisons)

Searching_binarySearch(arr, target, compare) ==
  IF ScanFindsUnsorted(arr, compare)
  THEN SearchThrew("Array must be sorted for binary search")
  ELSE BinaryLoop(arr, target, compare, 0, Len(arr) - 1, 0)

\* Fault injection for C17: linearSearch scanning from the last index down
RECURSIVE LinearLoop_FromTheEnd(_, _, _, _, _)
LinearLoop_FromTheEnd(arr, target, compare, i, comparisons) ==
  LET j == Len(arr) - 1 - i
  IN  IF i < Len(arr)
      THEN IF Eq0(Call(compare, At(arr, j), target))
           THEN SearchResult(At(arr, j), j, comparisons + 1)
           ELSE LinearLoop_FromTheEnd(arr, target, compare, i + 1,
                                      comparisons + 1)
      ELSE SearchResult(Undefined, -1, comparisons)

\* linearSearch: for (i = 0; i < arr.length; i++)
RECURSIVE LinearLoop(_, _, _, _, _)
LinearLoop(arr, target, compare, i, comparisons) ==
  IF i < Len(arr)
  THEN IF Eq0(Call(compare, At(arr, i), target))
       THEN SearchResult(At(arr, i), i, comparisons + 1)
       ELSE LinearLoop(arr, target, compare, i + 1, comparisons + 1)
  ELSE SearchResult(Undefined, -1, comparisons)

Searching_linearSearch(arr, target, compare) ==
  LinearLoop(arr, target, compare, 0, 0)

\* Math.floor(Math.sqrt(n))
RECURSIVE SqrtFrom(_, _)
SqrtFrom(n, r) == IF (r + 1) * (r + 1) > n THEN r ELSE SqrtFrom(n, r + 1)

FloorSqrt(n) == SqrtFrom(n, 0)

Min(a, b) == IF a < b THEN a ELSE b

\* jumpSearch: the linear scan inside the block found.  The block loop's
\* condition was evaluated once more than its body ran, and so is this
\* loop's when it ends by its condition; the final compare is counted.
RECURSIVE JumpLinearLoop(_, _, _, _, _, _)
JumpLinearLoop(arr, target, compare, prev, step, comparisons) ==
  IF Lt0(Call(compare, At(arr, prev), target))
  THEN IF prev + 1 = Min(step, Len(arr))
       THEN Uncounted(SearchResult(Undefined, -1, comparisons + 1), 1)
       ELSE JumpLinearLoop(arr, target, compare, prev + 1, step, comparisons + 1)
  ELSE IF Eq0(Call(compare, At(arr, prev), target))
  THEN Uncounted(SearchResult(At(arr, prev), prev, comparisons + 1), 2)
  ELSE Uncounted(SearchResult(Undefined, -1, comparisons + 1), 2)

\* jumpSearch: while (compare(arr[Math.min(step, n) - 1], target) < 0)
RECURSIVE JumpBlockLoop(_, _, _, _, _, _)
JumpBlockLoop(arr, target, compare, prev, step, comparisons) ==
  IF Lt0(Call(compare, At(arr, Min(step, Len(arr)) - 1), target))
  THEN IF step >= Len(arr)
       THEN SearchResult(Undefined, -1, comparisons + 1)
       ELSE JumpBlockLoop(arr, target, compare, step,
                          step + FloorSqrt(Len(arr)), comparisons + 1)
  ELSE JumpLinearLoop(arr, target, compare, prev, step, comparisons)

Searching_jumpSearch(arr, target, compare) ==
  IF ScanFindsUnsorted(arr, compare)
  THEN SearchThrew("Array must be sorted for jump search")
  ELSE JumpBlockLoop(arr, target, compare, 0, FloorSqrt(Len(arr)), 0)

\* a <= b, a >= b, a < b and a === b on JavaScript values (false on NaN and
\* on undefined)
JSLe(a, b) == ToNumber(a).t = "number" /\ ToNumber(b).t = "number"
              /\ ToNumber(a).v <= ToNumber(b).v

JSLt(a, b) == ToNumber(a).t = "number" /\ ToNumber(b).t = "number"
              /\ ToNumber(a).v < ToNumber(b).v

StrictEq(a, b) == a.t # "NaN" /\ a = b

\* arr[i] for an index that is a JavaScript number, NaN included
AtJS(arr, i) == IF i.t = "number" THEN At(arr, i.v) ELSE Undefined

\* low + Math.floor(((high - low) * (target - arr[low])) / (arr[high] - arr[low])):
\* NaN on 0 / 0.  The loop condition holds where this is evaluated, so the
\* dividend is never negative and the divisor never negative.
ProbePosition(arr, target, low, high) ==
  LET dividend == (high - low) * (target.v - At(arr, low).v)
      divisor == At(arr, high).v - At(arr, low).v
  IN  IF divisor = 0 THEN NaN ELSE Num(low + (dividend \div divisor))

\* the result of a search that evaluated the interpolation formula with the
\* range low .. high, got pos and went on to result
Probed(arr, low, high, pos, result) ==
  [result EXCEPT !.probes =
     <<[low |-> low, high |-> high, pos |-> pos,
        divisor |-> At(arr, high).v - At(arr, low).v]>> \o @]

\* interpolationSearch: while (low <= high && target >= arr[low] && target <= arr[high]);
\* low and high are JavaScript numbers
RECURSIVE InterpolationLoop(_, _, _, _, _)
InterpolationLoop(arr, target, low, high, comparisons) ==
  IF JSLe(low, high) /\ JSLe(AtJS(arr, low), target) /\ JSLe(target, AtJS(arr, high))
  THEN IF low = high
       THEN IF StrictEq(AtJS(arr, low), target)
            THEN SearchResult(AtJS(arr, low), low.v, comparisons + 1)
            ELSE SearchResult(Undefined, -1, comparisons + 1)
       ELSE LET pos == ProbePosition(arr, target, low.v, high.v)
            IN  Probed(arr, low.v, high.v, pos,
                  IF StrictEq(AtJS(arr, pos), target)
                  THEN SearchResult(AtJS(arr, pos), pos.v, comparisons + 1)
                  ELSE IF JSLt(AtJS(arr, pos), target)
                  THEN InterpolationLoop(arr, target, JSSub(pos, Num(-1)), high,
                                         comparisons + 1)
                  ELSE InterpolationLoop(arr, target, low, JSSub(pos, Num(1)),
                                         comparisons + 1))
  ELSE SearchResult(Undefined, -1, comparisons)

Searching_interpolationSearch(arr, target) ==
  InterpolationLoop(arr, target, Num(0), Num(Len(arr) - 1), 0)

\* exponentialSearch: while (i < arr.length && compare(arr[i], target) <= 0);
\* the loop's result is the final i, the comparisons counted and the
\* comparator invocations made (the condition's last evaluation invokes the
\* comparator unless i < arr.length already fails)
RECURSIVE DoublingLoop(_, _, _, _, _)
DoublingLoop(arr, target, compare, i, comparisons) ==
  IF i < Len(arr) /\ Le0(Call(compare, At(arr, i), target))
  THEN DoublingLoop(arr, target, compare, i * 2, comparisons + 1)
  ELSE [i |-> i, comparisons |-> comparisons,
        calls |-> IF i < Len(arr) THEN comparisons + 1 ELSE comparisons]

\* Fault injection for C34: a slice that starts at the front of the array
Slice_FromTheFront(arr, start, end) == SubSeq(arr, 1, Min(end, Len(arr)))

\* arr.slice(start, end) for 0 <= start: a fractional start is truncated by
\* the caller
Slice(arr, start, end) == SubSeq(arr, start + 1, Min(end, Len(arr)))

Searching_exponentialSearch(arr, target, compare) ==
  IF Len(arr) = 0 THEN SearchResult(Undefined, -1, 0)
  ELSE IF Eq0(Call(compare, At(arr, 0), target))
  THEN SearchResult(At(arr, 0), 0, 1)
  ELSE LET loop == DoublingLoop(arr, target, compare, 1, 1)
           i == loop.i
           result == Searching_binarySearch(
                       Slice(arr, i \div 2, Min(i, Len(arr))), target, compare)
       IN  IF result.thrown # "" THEN result
           ELSE IF result.element # Undefined
           THEN [thrown |-> "", element |-> result.element,
                 index |-> (i \div 2) + result.index, half |-> (i % 2 = 1),
                 comparisons |-> loop.comparisons + result.comparisons,
                 calls |-> loop.calls + result.calls]
           ELSE Uncounted(
                  SearchResult(Undefined, -1,
                               loop.comparisons + result.comparisons),
                  loop.calls - loop.comparisons)

\* the sum of the numbers of a sequence (reduce((a, b) => a + b))
RECURSIVE SumOf(_)
SumOf(nums) == IF nums = <<>> THEN 0 ELSE Head(nums) + SumOf(Tail(nums))

\* Fault injection for C14: the uniformity test with variance <= avgDiff / 2
Searching_isUniformlyDistributed_NonStrict(arr) ==
  IF Len(arr) < 4 THEN FALSE
  ELSE LET diffs == [i \in 1..(Len(arr) - 1) |-> JSSub(arr[i + 1], arr[i]).v]
           n == Len(diffs)
           total == SumOf(diffs)
           squares == SumOf([i \in 1..n |->
                               (n * diffs[i] - total) * (n * diffs[i] - total)])
       IN  2 * squares <= n * n * total

\* isUniformlyDistributed(arr), called on arrays of numbers only.  With n
\* differences of sum total, avgDiff = total / n and
\* variance = (sum of (d - avgDiff)^2) / n = squares / n^3 for
\* squares = sum of (n * d - total)^2, so variance < avgDiff / 2 is
\* 2 * squares < n^2 * total in integers.
Searching_isUniformlyDistributed(arr) ==
  IF Len(arr) < 4 THEN FALSE
  ELSE LET diffs == [i \in 1..(Len(arr) - 1) |-> JSSub(arr[i + 1], arr[i]).v]
           n == Len(diffs)
           total == SumOf(diffs)
           squares == SumOf([i \in 1..n |->
                               (n * diffs[i] - total) * (n * diffs[i] - total)])
       IN  2 * squares < n * n * total

\* typeof x === "number" (NaN is a number)
IsNumber(x) == x.t \in {"number", "NaN"}

\* search: the longest array handed to linearSearch unconditionally
LinearSearchLimit == 10

\* search: the loop that sets isSorted
SearchIsSorted(arr, compare) ==
  \A i \in 1..(Len(arr) - 1) : ~Gt0(Call(compare, At(arr, i - 1), At(arr, i)))

\* search(arr, target, compare)
Searching_search(arr, target, compare) ==
  IF Len(arr) <= LinearSearchLimit
  THEN Searching_linearSearch(arr, target, compare)
  ELSE IF ~SearchIsSorted(arr, compare)
  THEN Searching_linearSearch(arr, target, compare)
  ELSE IF /\ IsNumber(target)
          /\ \A k \in 1..Len(arr) : IsNumber(arr[k])
          /\ Searching_isUniformlyDistributed(arr)
  THEN Searching_interpolationSearch(arr, target)
  ELSE Searching_binarySearch(arr, target, compare)

(***************************************************************************)
(* Trie.  A Trie object holds the reference of its root TrieNode; a        *)
(* TrieNode is a record { isEndOfWord, children } in the store, children   *)
(* being a Map in insertion order: a sequence of entries <<char, node      *)
(* reference>>.  A string is the sequence of its characters.               *)
(***************************************************************************)
TrieNode(isEndOfWord, children) ==
  [isEndOfWord |-> isEndOfWord, children |-> children]

NewTrieObject(root) == [cls |-> "Trie", root |-> root]

\* String.prototype.toLowerCase on the characters the model draws
LowerChar(char) == IF char = "A" THEN "a" ELSE IF char = "B" THEN "b" ELSE char

ToLowerCase(word) == [k \in 1..Len(word) |-> LowerChar(word[k])]

\* Map.prototype.has, get and set
MapHas(children, char) == \E k \in 1..Len(children) : children[k][1] = char

MapGet(children, char) ==
  children[CHOOSE k \in 1..Len(children) : children[k][1] = char][2]

MapSet(children, char, node) ==
  IF MapHas(children, char)
  THEN [k \in 1..Len(children) |->
          IF children[k][1] = char THEN <<char, node>> ELSE children[k]]
  ELSE Append(children, <<char, node>>)

\* new Trie()
Trie_constructor(o, m) ==
  Outcome(Append(o, NewTrieObject(Len(m) + 1)),
          Append(m, TrieNode(FALSE, <<>>)), "", Len(o) + 1, Undefined)

\* insert: for (const char of word.toLowerCase()), then
\* current.isEndOfWord = true; the store after the loop
RECURSIVE InsertWalk(_, _, _)
InsertWalk(m, current, chars) ==
  IF chars = <<>>
  THEN [m EXCEPT ![current].isEndOfWord = TRUE]
  ELSE LET char == Head(chars)
           m1 == IF MapHas(m[current].children, char) THEN m
                 ELSE Append([m EXCEPT ![current].children =
                                MapSet(@, char, Len(m) + 1)],
                             TrieNode(FALSE, <<>>))
       IN  InsertWalk(m1, MapGet(m1[current].children, char), Tail(chars))

\* insert(word): a new Trie whose root's children is new Map(this.root.children),
\* a copy of the root's entries that refer to the receiver's nodes
Trie_insert(o, m, this, word) ==
  LET made == Trie_constructor(o, m)
      root == made.objs[made.ret].root
      m1 == [made.mem EXCEPT ![root].children = m[o[this].root].children]
  IN  Outcome(made.objs, InsertWalk(m1, root, ToLowerCase(word)), "",
              made.ret, Undefined)

\* findNode(prefix): the reference of the node reached, 0 for null
RECURSIVE FindWalk(_, _, _)
FindWalk(m, current, chars) ==
  IF chars = <<>> THEN current
  ELSE IF ~MapHas(m[current].children, Head(chars)) THEN 0
  ELSE FindWalk(m, MapGet(m[current].children, Head(chars)), Tail(chars))

Trie_findNode(o, m, this, prefix) == FindWalk(m, o[this].root, prefix)

Trie_contains(o, m, this, word) ==
  LET node == Trie_findNode(o, m, this, ToLowerCase(word))
  IN  node # 0 /\ m[node].isEndOfWord

Trie_containsPrefix(o, m, this, prefix) ==
  Trie_findNode(o, m, this, ToLowerCase(prefix)) # 0

\* collectWords(node, prefix, words): the words pushed, in order; k is the
\* position in node.children the for-of loop has reached
RECURSIVE CollectFrom(_, _, _, _)
Trie_collectWords(m, node, prefix) ==
  (IF m[node].isEndOfWord THEN <<prefix>> ELSE <<>>)
    \o CollectFrom(m, node, prefix, 1)

CollectFrom(m, node, prefix, k) ==
  IF k > Len(m[node].children) THEN <<>>
  ELSE Trie_collectWords(m, m[node].children[k][2],
                         Append(prefix, m[node].children[k][1]))
         \o CollectFrom(m, node, prefix, k + 1)

Trie_findWordsWithPrefix(o, m, this, prefix) ==
  LET node == Trie_findNode(o, m, this, ToLowerCase(prefix))
  IN  IF node # 0 THEN Trie_collectWords(m, node, ToLowerCase(prefix))
      ELSE <<>>

(***************************************************************************)
(* BinarySearchTree.  A tree is the record [cls, root, size] and a         *)
(* BinaryNode the record [value, left, right]; root, left and right are    *)
(* references into the sequence of the nodes allocated so far, 0 standing  *)
(* for null.  The private methods hand back the nodes after the call and   *)
(* the node returned.                                                      *)
(***************************************************************************)
BinaryNode(value, left, right) == [value |-> value, left |-> left, right |-> right]

\* the nodes after an object literal was evaluated, and its reference
NewNode(m, node) == [mem |-> Append(m, node), node |-> Len(m) + 1]

RECURSIVE BinarySearchTree_insertNode(_, _, _)
BinarySearchTree_insertNode(m, node, value) ==
  IF node = 0 THEN NewNode(m, BinaryNode(value, 0, 0))
  ELSE IF JSLt(value, m[node].value)
  THEN LET sub == BinarySearchTree_insertNode(m, m[node].left, value)
       IN  NewNode(sub.mem, [m[node] EXCEPT !.left = sub.node])
  ELSE LET sub == BinarySearchTree_insertNode(m, m[node].right, value)
       IN  NewNode(sub.mem, [m[node] EXCEPT !.right = sub.node])

\* Fault injection for C35: findMin returning the node it was given
BinarySearchTree_findMin_NoWalk(m, node) == node

\* findMin(node): while (current.left) current = current.left
RECURSIVE BinarySearchTree_findMin(_, _)
BinarySearchTree_findMin(m, node) ==
  IF m[node].left # 0 THEN BinarySearchTree_findMin(m, m[node].left) ELSE node

RECURSIVE BinarySearchTree_removeNode(_, _, _)
BinarySearchTree_removeNode(m, node, value) ==
  IF node = 0 THEN [mem |-> m, node |-> 0]
  ELSE IF JSLt(value, m[node].value)
  THEN LET sub == BinarySearchTree_removeNode(m, m[node].left, value)
       IN  NewNode(sub.mem, [m[node] EXCEPT !.left = sub.node])
  ELSE IF JSLt(m[node].value, value)
  THEN LET sub == BinarySearchTree_removeNode(m, m[node].right, value)
       IN  NewNode(sub.mem, [m[node] EXCEPT !.right = sub.node])
  ELSE IF m[node].left = 0 THEN [mem |-> m, node |-> m[node].right]
  ELSE IF m[node].right = 0 THEN [mem |-> m, node |-> m[node].left]
  ELSE LET minNode == BinarySearchTree_findMin(m, m[node].right)
           sub == BinarySearchTree_removeNode(m, m[node].right, m[minNode].value)
       IN  NewNode(sub.mem, BinaryNode(m[minNode].value, m[node].left, sub.node))

\* findNode(node, value): the node found, 0 for null
RECURSIVE BinarySearchTree_findNode(_, _, _)
BinarySearchTree_findNode(m, node, value) ==
  IF node = 0 THEN 0
  ELSE IF StrictEq(value, m[node].value) THEN node
  ELSE IF JSLt(value, m[node].value)
  THEN BinarySearchTree_findNode(m, m[node].left, value)
  ELSE BinarySearchTree_findNode(m, m[node].right, value)

RECURSIVE BinarySearchTree_calculateSize(_, _)
BinarySearchTree_calculateSize(m, node) ==
  IF node = 0 THEN 0
  ELSE 1 + BinarySearchTree_calculateSize(m, m[node].left)
         + BinarySearchTree_calculateSize(m, m[node].right)

\* the values inorderTraversal(node) yields
RECURSIVE BinarySearchTree_inorderTraversal(_, _)
BinarySearchTree_inorderTraversal(m, node) ==
  IF node = 0 THEN <<>>
  ELSE BinarySearchTree_inorderTraversal(m, m[node].left)
         \o <<m[node].value>>
         \o BinarySearchTree_inorderTraversal(m, m[node].right)

\* new BinarySearchTree()
BinarySearchTree_constructor(o, m) ==
  Outcome(Append(o, [cls |-> "BinarySearchTree", root |-> 0, size |-> 0]),
          m, "", Len(o) + 1, Undefined)

\* insert(value)
BinarySearchTree_insert(o, m, this, value) ==
  LET tree == BinarySearchTree_constructor(o, m)
      made == BinarySearchTree_insertNode(m, o[this].root, value)
  IN  Outcome([tree.objs EXCEPT ![tree.ret].root = made.node,
                                ![tree.ret].size = o[this].size + 1],
              made.mem, "", tree.ret, Undefined)

\* remove(value)
BinarySearchTree_remove(o, m, this, value) ==
  LET tree == BinarySearchTree_constructor(o, m)
      made == BinarySearchTree_removeNode(m, o[this].root, value)
  IN  Outcome([tree.objs EXCEPT ![tree.ret].root = made.node,
                                ![tree.ret].size =
                                  BinarySearchTree_calculateSize(made.mem, made.node)],
              made.mem, "", tree.ret, Undefined)

BinarySearchTree_contains(o, m, this, value) ==
  BinarySearchTree_findNode(m, o[this].root, value) # 0

BinarySearchTree_size(o, m, this) == o[this].size

\* [...tree]
BinarySearchTree_iterator(o, m, this) ==
  BinarySearchTree_inorderTraversal(m, o[this].root)

(***************************************************************************)
(* GeneralTree.  A tree is the record [cls, root, size]; root is the       *)
(* sequence of no node (null) or of one TreeNode, a record [value,         *)
(* children] whose children are TreeNodes.  No method assigns to a node    *)
(* once made, so nodes are values here.                                    *)
(***************************************************************************)
TreeNode(value, children) == [value |-> value, children |-> children]

\* new GeneralTree()
GeneralTree_constructor == [cls |-> "GeneralTree", root |-> <<>>, size |-> 0]

\* insertChildNode(node, parentValue, childValue) for a node that is not null
RECURSIVE GeneralTree_insertChildNode(_, _, _)
GeneralTree_insertChildNode(node, parentValue, childValue) ==
  IF StrictEq(node.value, parentValue)
  THEN TreeNode(node.value, Append(node.children, TreeNode(childValue, <<>>)))
  ELSE TreeNode(node.value,
                [k \in 1..Len(node.children) |->
                   GeneralTree_insertChildNode(node.children[k], parentValue,
                                               childValue)])

\* calculateSize(node) for a node that is not null
RECURSIVE GeneralTree_calculateSize(_)
GeneralTree_calculateSize(node) ==
  1 + SumOf([k \in 1..Len(node.children) |->
               GeneralTree_calculateSize(node.children[k])])

\* the loop of levelOrder: while (queue.length > 0)
RECURSIVE LevelOrderLoop(_)
LevelOrderLoop(queue) ==
  IF Len(queue) = 0 THEN <<>>
  ELSE <<Head(queue).value>> \o LevelOrderLoop(Tail(queue) \o Head(queue).children)

\* [...tree], which yields levelOrder()
GeneralTree_levelOrder(this) == LevelOrderLoop(this.root)

\* insert(value): the tree returned
GeneralTree_insert(this, value) ==
  IF this.root # <<>> THEN this
  ELSE [cls |-> "GeneralTree", root |-> <<TreeNode(value, <<>>)>>, size |-> 1]

\* insertChild(parentValue, childValue): the tree returned
GeneralTree_insertChild(this, parentValue, childValue) ==
  LET root == IF this.root = <<>> THEN <<>>
              ELSE <<GeneralTree_insertChildNode(this.root[1], parentValue,
                                                 childValue)>>
  IN  [cls |-> "GeneralTree", root |-> root,
       size |-> IF root = <<>> THEN 0 ELSE GeneralTree_calculateSize(root[1])]

GeneralTree_size(this) == this.size

(***************************************************************************)
(* LinkedList and DoublyLinkedList.  A list is the record [cls, head,      *)
(* tail, size] and a node the record [value, next, prev]; head, tail, next *)
(* and prev are references into the sequence of the nodes allocated so     *)
(* far, 0 standing for null.  A LinkedList has no tail and its nodes no    *)
(* prev: they stay 0.  Methods are store transformers like those of the    *)
(* heaps; the store they hand back holds the nodes they assigned to.       *)
(***************************************************************************)
ListNode(value, next, prev) == [value |-> value, next |-> next, prev |-> prev]

NewList(cls, head, tail, size) ==
  [cls |-> cls, head |-> head, tail |-> tail, size |-> size]

\* new LinkedList(), new DoublyLinkedList()
List_constructor(o, m, cls) ==
  Outcome(Append(o, NewList(cls, 0, 0, 0)), m, "", Len(o) + 1, Undefined)

\* size(), isEmpty(), first(), last()
List_size(o, m, this) == o[this].size

List_isEmpty(o, m, this) == o[this].head = 0

List_first(o, m, this) ==
  IF o[this].head = 0 THEN Undefined ELSE m[o[this].head].value

DoublyLinkedList_last(o, m, this) ==
  IF o[this].tail = 0 THEN Undefined ELSE m[o[this].tail].value

\* [Symbol.iterator] of both classes: the values from current on, by next
RECURSIVE List_iteratorFrom(_, _)
List_iteratorFrom(m, current) ==
  IF current = 0 THEN <<>>
  ELSE <<m[current].value>> \o List_iteratorFrom(m, m[current].next)

List_iterator(o, m, this) == List_iteratorFrom(m, o[this].head)

\* reverseIterator(): the values from current on, by prev
RECURSIVE DoublyLinkedList_reverseFrom(_, _)
DoublyLinkedList_reverseFrom(m, current) ==
  IF current = 0 THEN <<>>
  ELSE <<m[current].value>> \o DoublyLinkedList_reverseFrom(m, m[current].prev)

DoublyLinkedList_reverseIterator(o, m, this) ==
  DoublyLinkedList_reverseFrom(m, o[this].tail)

\* LinkedList.prepend(value)
LinkedList_prepend(o, m, this, value) ==
  LET m1 == Append(m, ListNode(value, o[this].head, 0))
  IN  Outcome(Append(o, NewList("LinkedList", Len(m1), 0, o[this].size + 1)),
              m1, "", Len(o) + 1, Undefined)

\* the copying loop of LinkedList.append and LinkedList.remove,
\* while (oldCurrent !== null): remove skips the first node holding value
\* and sets found; append, which skips nothing, is the loop entered with
\* found set.  It hands back the nodes, list.head, previous and found.
RECURSIVE LinkedList_copyLoop(_, _, _, _, _, _)
LinkedList_copyLoop(m, oldCurrent, previous, head, found, value) ==
  IF oldCurrent = 0
  THEN [mem |-> m, head |-> head, previous |-> previous, found |-> found]
  ELSE IF ~found /\ StrictEq(m[oldCurrent].value, value)
  THEN LinkedList_copyLoop(m, m[oldCurrent].next, previous, head, TRUE, value)
  ELSE LET current == Len(m) + 1
           m1 == Append(m, ListNode(m[oldCurrent].value, 0, 0))
       IN  IF previous = 0
           THEN LinkedList_copyLoop(m1, m[oldCurrent].next, current, current,
                                    found, value)
           ELSE LinkedList_copyLoop([m1 EXCEPT ![previous].next = current],
                                    m[oldCurrent].next, current, head, found, value)

\* LinkedList.append(value)
LinkedList_append(o, m, this, value) ==
  IF List_isEmpty(o, m, this) THEN LinkedList_prepend(o, m, this, value)
  ELSE LET newNode == Len(m) + 1
           copy == LinkedList_copyLoop(Append(m, ListNode(value, 0, 0)),
                                       o[this].head, 0, 0, TRUE, value)
           linked == IF copy.previous # 0
                     THEN [copy.mem EXCEPT ![copy.previous].next = newNode]
                     ELSE copy.mem
       IN  Outcome(Append(o, NewList("LinkedList", copy.head, 0, o[this].size + 1)),
                   linked, "", Len(o) + 1, Undefined)

\* Fault injection for C38: remove that hands back the copy also when the
\* value was not found
LinkedList_remove_AlwaysTheCopy(o, m, this, value) ==
  IF List_isEmpty(o, m, this) THEN Outcome(o, m, "", this, Undefined)
  ELSE IF StrictEq(m[o[this].head].value, value)
  THEN Outcome(Append(o, NewList("LinkedList", m[o[this].head].next, 0,
                                 o[this].size - 1)),
               m, "", Len(o) + 1, Undefined)
  ELSE LET copy == LinkedList_copyLoop(m, o[this].head, 0, 0, FALSE, value)
       IN  Outcome(Append(o, NewList("LinkedList", copy.head, 0, o[this].size - 1)),
                   copy.mem, "", Len(o) + 1, Undefined)

\* LinkedList.remove(value): ret is this when the list returned is this
LinkedList_remove(o, m, this, value) ==
  IF List_isEmpty(o, m, this) THEN Outcome(o, m, "", this, Undefined)
  ELSE IF StrictEq(m[o[this].head].value, value)
  THEN Outcome(Append(o, NewList("LinkedList", m[o[this].head].next, 0,
                                 o[this].size - 1)),
               m, "", Len(o) + 1, Undefined)
  ELSE LET copy == LinkedList_copyLoop(m, o[this].head, 0, 0, FALSE, value)
       IN  IF copy.found
           THEN Outcome(Append(o, NewList("LinkedList", copy.head, 0,
                                          o[this].size - 1)),
                        copy.mem, "", Len(o) + 1, Undefined)
           ELSE Outcome(o, copy.mem, "", this, Undefined)

\* the loop of LinkedList.reverse: the nodes and prev
RECURSIVE LinkedList_reverseLoop(_, _, _)
LinkedList_reverseLoop(m, current, prev) ==
  IF current = 0 THEN [mem |-> m, prev |-> prev]
  ELSE LinkedList_reverseLoop(Append(m, ListNode(m[current].value, prev, 0)),
                              m[current].next, Len(m) + 1)

\* LinkedList.reverse()
LinkedList_reverse(o, m, this) ==
  LET loop == LinkedList_reverseLoop(m, o[this].head, 0)
  IN  Outcome(Append(o, NewList("LinkedList", loop.prev, 0, o[this].size)),
              loop.mem, "", Len(o) + 1, Undefined)

\* the copying loop of DoublyLinkedList.prepend, append and remove,
\* while (oldCurrent !== null).  remove skips the first node holding value
\* and sets found; prepend and append skip nothing and are the loop entered
\* with found set.  prepend links its newNode in front of the first copy and
\* makes it the head; for append and remove newNode is 0 and the first copy
\* is the head.  It hands back the nodes, list.head, current and found.
RECURSIVE DoublyLinkedList_copyLoop(_, _, _, _, _, _, _)
DoublyLinkedList_copyLoop(m, oldCurrent, previous, head, found, value, newNode) ==
  IF oldCurrent = 0
  THEN [mem |-> m, head |-> head, current |-> previous, found |-> found]
  ELSE IF ~found /\ StrictEq(m[oldCurrent].value, value)
  THEN DoublyLinkedList_copyLoop(m, m[oldCurrent].next, previous, head, TRUE,
                                 value, newNode)
  ELSE LET current == Len(m) + 1
           m1 == Append(m, ListNode(m[oldCurrent].value, 0, previous))
       IN  IF previous = 0 /\ newNode # 0
           THEN DoublyLinkedList_copyLoop(
                  [m1 EXCEPT ![newNode].next = current, ![current].prev = newNode],
                  m[oldCurrent].next, current, newNode, found, value, newNode)
           ELSE IF previous = 0
           THEN DoublyLinkedList_copyLoop(m1, m[oldCurrent].next, current, current,
                                          found, value, newNode)
           ELSE DoublyLinkedList_copyLoop([m1 EXCEPT ![previous].next = current],
                                          m[oldCurrent].next, current, head, found,
                                          value, newNode)

\* DoublyLinkedList.prepend(value)
DoublyLinkedList_prepend(o, m, this, value) ==
  LET newNode == Len(m) + 1
      m1 == Append(m, ListNode(value, 0, 0))
      copy == DoublyLinkedList_copyLoop(m1, o[this].head, 0, 0, TRUE, value, newNode)
  IN  IF List_isEmpty(o, m, this)
      THEN Outcome(Append(o, NewList("DoublyLinkedList", newNode, newNode,
                                     o[this].size + 1)),
                   m1, "", Len(o) + 1, Undefined)
      ELSE Outcome(Append(o, NewList("DoublyLinkedList", copy.head, copy.current,
                                     o[this].size + 1)),
                   copy.mem, "", Len(o) + 1, Undefined)

\* DoublyLinkedList.append(value)
DoublyLinkedList_append(o, m, this, value) ==
  IF List_isEmpty(o, m, this) THEN DoublyLinkedList_prepend(o, m, this, value)
  ELSE LET newNode == Len(m) + 1
           copy == DoublyLinkedList_copyLoop(Append(m, ListNode(value, 0, 0)),
                                             o[this].head, 0, 0, TRUE, value, 0)
           linked == IF copy.current # 0
                     THEN [copy.mem EXCEPT ![copy.current].next = newNode,
                                           ![newNode].prev = copy.current]
                     ELSE copy.mem
       IN  Outcome(Append(o, NewList("DoublyLinkedList", copy.head, newNode,
                                     o[this].size + 1)),
                   linked, "", Len(o) + 1, Undefined)

\* DoublyLinkedList.remove(value): ret is this when the list returned is this
DoublyLinkedList_remove(o, m, this, value) ==
  IF List_isEmpty(o, m, this) THEN Outcome(o, m, "", this, Undefined)
  ELSE LET copy == DoublyLinkedList_copyLoop(m, o[this].head, 0, 0, FALSE, value, 0)
       IN  IF copy.found
           THEN Outcome(Append(o, NewList("DoublyLinkedList", copy.head,
                                          copy.current, o[this].size - 1)),
                        copy.mem, "", Len(o) + 1, Undefined)
           ELSE Outcome(o, copy.mem, "", this, Undefined)

\* Fault injection for C37: the loop of reverse leaving prev of its copies
\* null
RECURSIVE DoublyLinkedList_reverseLoop_NoPrev(_, _, _, _)
DoublyLinkedList_reverseLoop_NoPrev(m, oldCurrent, previous, head) ==
  IF oldCurrent = 0 THEN [mem |-> m, head |-> head, previous |-> previous]
  ELSE LET current == Len(m) + 1
           m1 == Append(m, ListNode(m[oldCurrent].value, 0, 0))
       IN  IF previous = 0
           THEN DoublyLinkedList_reverseLoop_NoPrev(m1, m[oldCurrent].prev, current,
                                                    current)
           ELSE DoublyLinkedList_reverseLoop_NoPrev(
                  [m1 EXCEPT ![previous].next = current],
                  m[oldCurrent].prev, current, head)

\* the loop of DoublyLinkedList.reverse, while (oldCurrent), from the tail
\* by prev: the nodes, list.head and previous
RECURSIVE DoublyLinkedList_reverseLoop(_, _, _, _)
DoublyLinkedList_reverseLoop(m, oldCurrent, previous, head) ==
  IF oldCurrent = 0 THEN [mem |-> m, head |-> head, previous |-> previous]
  ELSE LET current == Len(m) + 1
           m1 == Append(m, ListNode(m[oldCurrent].value, 0, previous))
       IN  IF previous = 0
           THEN DoublyLinkedList_reverseLoop(m1, m[oldCurrent].prev, current, current)
           ELSE DoublyLinkedList_reverseLoop([m1 EXCEPT ![previous].next = current],
                                             m[oldCurrent].prev, current, head)

\* DoublyLinkedList.reverse()
DoublyLinkedList_reverse(o, m, this) ==
  LET loop == DoublyLinkedList_reverseLoop(m, o[this].tail, 0, 0)
  IN  IF List_isEmpty(o, m, this)
      THEN Outcome(Append(o, NewList("DoublyLinkedList", 0, 0, o[this].size)),
                   m, "", Len(o) + 1, Undefined)
      ELSE Outcome(Append(o, NewList("DoublyLinkedList", loop.head, loop.previous,
                                     o[this].size)),
                   loop.mem, "", Len(o) + 1, Undefined)

(***************************************************************************)
(* The record of the last call on a heap or queue: the method, the         *)
(* receiver, the argument (src when it is an array), the receiver's array  *)
(* before the call, and what the call gave back.                           *)
(***************************************************************************)
NoCall ==
  [op |-> "", this |-> 0, arg |-> Undefined, src |-> <<>>, pre |-> <<>>,
   thrown |-> "", ret |-> 0, element |-> Undefined, yielded |-> <<>>]

CallRecord(op, this, arg, src, pre, out, yielded) ==
  [op |-> op, this |-> this, arg |-> arg, src |-> src, pre |-> pre,
   thrown |-> out.thrown, ret |-> out.ret, element |-> out.element,
   yielded |-> yielded]

\* the values a heap or queue is given
HeapVals == {Num(n) : n \in 1..MaxVal}

\* the four heap classes as constructed: MinHeap, MaxHeap, CustomHeap with a
\* caller's comparator, BinaryHeap with its tag
HeapConfigs ==
  {NewObject("MinHeap", Undefined, "", 0, 0),
   NewObject("MaxHeap", Undefined, "", 0, 0),
   NewObject("CustomHeap", Fn(2), "", 0, 0),
   NewObject("CustomHeap", Fn(3), "", 0, 0),
   NewObject("BinaryHeap", Undefined, "min", 0, 0),
   NewObject("BinaryHeap", Undefined, "max", 0, 0)}

\* the comparator a heap orders by, as a function value
ComparatorOf(obj) ==
  CASE obj.cls = "MinHeap" -> Fn(1)
    [] obj.cls = "MaxHeap" -> Fn(2)
    [] obj.cls = "BinaryHeap" -> IF obj.type = "min" THEN Fn(1) ELSE Fn(-1)
    [] OTHER -> obj.compareFn

(***************************************************************************)
(* SpecHeap: a program that holds one heap reference h and keeps replacing *)
(* it by the heap a method returns (h = h.add(x), h = h.remove().heap,     *)
(* h = h.clear()).  The instance h pointed to before becomes unreachable   *)
(* and leaves the store, so that the store holds h alone, at reference 1.  *)
(***************************************************************************)
KeepObjs(out) == <<[out.objs[out.ret] EXCEPT !.elements = 1]>>

KeepMem(out) == <<out.mem[out.objs[out.ret].elements]>>

InitHeap ==
  /\ objs = <<>>
  /\ mem = <<>>
  /\ last = NoCall
  /\ call = NoCall

ChainConstruct ==
  /\ objs = <<>>
  /\ \E cfg \in HeapConfigs :
       LET out == Heap_constructor(objs, mem, cfg.cls, cfg.compareFn, cfg.type)
       IN  /\ objs' = KeepObjs(out)
           /\ mem' = KeepMem(out)
           /\ last' = CallRecord("new", 0, Undefined, <<>>, <<>>, out, <<>>)
  /\ UNCHANGED call

ChainFrom ==
  /\ objs = <<>>
  /\ \E cfg \in HeapConfigs, elements \in SeqsUpTo(HeapVals, MaxFrom) :
       LET out == Heap_from(objs, mem, cfg.cls, cfg.compareFn, cfg.type, elements)
       IN  /\ objs' = KeepObjs(out)
           /\ mem' = KeepMem(out)
           /\ last' = CallRecord("from", 0, Undefined, elements, <<>>, out, <<>>)
  /\ UNCHANGED call

ChainAdd ==
  /\ objs # <<>>
  /\ Heap_size(objs, mem, 1) < MaxSize
  /\ \E element \in HeapVals \cup {Null, Undefined} :
       LET out == Heap_add(objs, mem, 1, element)
       IN  /\ last' = CallRecord("add", 1, element, <<>>, mem[1], out, <<>>)
           /\ IF out.thrown # ""
              THEN UNCHANGED <<objs, mem>>
              ELSE objs' = KeepObjs(out) /\ mem' = KeepMem(out)
  /\ UNCHANGED call

ChainRemove ==
  /\ objs # <<>>
  /\ LET out == Heap_remove(objs, mem, 1)
     IN  /\ objs' = KeepObjs(out)
         /\ mem' = KeepMem(out)
         /\ last' = CallRecord("remove", 1, Undefined, <<>>, mem[1], out, <<>>)
  /\ UNCHANGED call

ChainClear ==
  /\ objs # <<>>
  /\ LET out == Heap_clear(objs, mem, 1)
     IN  /\ objs' = KeepObjs(out)
         /\ mem' = KeepMem(out)
         /\ last' = CallRecord("clear", 1, Undefined, <<>>, mem[1], out, <<>>)
  /\ UNCHANGED call

ChainIterate ==
  /\ objs # <<>>
  /\ last' = CallRecord("iterate", 1, Undefined, <<>>, mem[1],
                        Outcome(objs, mem, "", 0, Undefined),
                        Heap_iterator(objs[1], mem[1]))
  /\ UNCHANGED <<objs, mem, call>>

NextHeap ==
  \/ ChainConstruct
  \/ ChainFrom
  \/ ChainAdd
  \/ ChainRemove
  \/ ChainClear
  \/ ChainIterate

SpecHeap == InitHeap /\ [][NextHeap]_vars

(***************************************************************************)
(* Spec: a program that keeps every instance it was ever handed and calls  *)
(* any method on any of them.  It starts from one constructor call.        *)
(***************************************************************************)
StoreVals == {Num(n) : n \in 1..MaxStoreVal}

\* what a caller passes as the comparator: nothing, a function, the string
\* "invalid", the empty string, an object, null, 0, false
CtorArgs ==
  {Undefined, Fn(1), Fn(3), Str(7), Str(0), Obj, Null, Num(0), Bool(FALSE)}

Refs == 1..Len(objs)

HeapRefs == {r \in Refs : objs[r].cls \in HeapClasses}

MaxQueueRefs == {r \in Refs : objs[r].cls = "MaxPriorityQueue"}

\* the PriorityQueue instances the program holds: the inner queue of a
\* MaxPriorityQueue is private to it
QueueRefs ==
  {r \in Refs : /\ objs[r].cls = "PriorityQueue"
                /\ \A w \in MaxQueueRefs : objs[w].queue # r}

\* a MaxPriorityQueue is two objects, itself and its inner queue
HasRoom == IF MaxQueueRefs # {} THEN Len(objs) + 2 <= 2 * MaxObjs
           ELSE Len(objs) < MaxObjs

Init ==
  /\ objs = <<>>
  /\ mem = <<>>
  /\ last = NoCall
  /\ call = NoCall

\* a call that returns an instance, or throws and leaves the store as it was
Apply(op, this, arg, pre, out) ==
  /\ last' = CallRecord(op, this, arg, <<>>, pre, out, <<>>)
  /\ IF out.thrown # ""
     THEN UNCHANGED <<objs, mem>>
     ELSE objs' = out.objs /\ mem' = out.mem
  /\ UNCHANGED call

NewHeap ==
  /\ objs = <<>>
  /\ \E cfg \in HeapConfigs :
       Apply("new Heap", 0, Undefined, <<>>,
             Heap_constructor(objs, mem, cfg.cls, cfg.compareFn, cfg.type))

NewPriorityQueue ==
  /\ objs = <<>>
  /\ \E arg \in CtorArgs :
       Apply("new PriorityQueue", 0, arg, <<>>,
             PriorityQueue_constructor(objs, mem, arg))

NewMaxPriorityQueue ==
  /\ objs = <<>>
  /\ \E arg \in CtorArgs :
       Apply("new MaxPriorityQueue", 0, arg, <<>>,
             MaxPriorityQueue_constructor(objs, mem, arg))

Add ==
  /\ HasRoom
  /\ \E this \in HeapRefs, element \in StoreVals \cup {Null, Undefined} :
       Apply("add", this, element, ElementsOf(objs, mem, this),
             Heap_add(objs, mem, this, element))

Remove ==
  /\ HasRoom
  /\ \E this \in HeapRefs :
       Apply("remove", this, Undefined, ElementsOf(objs, mem, this),
             Heap_remove(objs, mem, this))

Clear ==
  /\ HasRoom
  /\ \E this \in HeapRefs :
       Apply("clear", this, Undefined, ElementsOf(objs, mem, this),
             Heap_clear(objs, mem, this))

Iterate ==
  \E this \in HeapRefs :
    /\ last' = CallRecord("iterate", this, Undefined, <<>>,
                          ElementsOf(objs, mem, this),
                          Outcome(objs, mem, "", 0, Undefined),
                          Heap_iterator(objs[this], mem[objs[this].elements]))
    /\ UNCHANGED <<objs, mem, call>>

Enqueue ==
  /\ HasRoom
  /\ \E this \in QueueRefs, element \in StoreVals \cup {Null, Undefined} :
       Apply("enqueue", this, element, ElementsOf(objs, mem, this),
             PriorityQueue_enqueue(objs, mem, this, element))

Dequeue ==
  /\ HasRoom
  /\ \E this \in QueueRefs :
       Apply("dequeue", this, Undefined, ElementsOf(objs, mem, this),
             PriorityQueue_dequeue(objs, mem, this))

ClearQueue ==
  /\ HasRoom
  /\ \E this \in QueueRefs :
       Apply("clear", this, Undefined, ElementsOf(objs, mem, this),
             PriorityQueue_clear(objs, mem, this))

IterateQueue ==
  \E this \in QueueRefs \cup MaxQueueRefs :
    /\ last' = CallRecord("iterate", this, Undefined, <<>>,
                          ElementsOf(objs, mem, this),
                          Outcome(objs, mem, "", 0, Undefined),
                          PriorityQueue_iterator(
                            IF this \in MaxQueueRefs THEN objs[objs[this].queue]
                            ELSE objs[this],
                            ElementsOf(objs, mem, this)))
    /\ UNCHANGED <<objs, mem, call>>

MaxEnqueue ==
  /\ HasRoom
  /\ \E this \in MaxQueueRefs, element \in StoreVals \cup {Null, Undefined} :
       Apply("enqueue", this, element, ElementsOf(objs, mem, this),
             MaxPriorityQueue_enqueue(objs, mem, this, element))

MaxDequeue ==
  /\ HasRoom
  /\ \E this \in MaxQueueRefs :
       Apply("dequeue", this, Undefined, ElementsOf(objs, mem, this),
             MaxPriorityQueue_dequeue(objs, mem, this))

Next ==
  \/ NewHeap
  \/ NewPriorityQueue
  \/ NewMaxPriorityQueue
  \/ Add
  \/ Remove
  \/ Clear
  \/ Iterate
  \/ Enqueue
  \/ Dequeue
  \/ ClearQueue
  \/ IterateQueue
  \/ MaxEnqueue
  \/ MaxDequeue

Spec == Init /\ [][Next]_vars

(***************************************************************************)
(* SpecSort: one call of a Sorting function.  The initial states draw the  *)
(* input array and the comparator; an action is the call of one function.  *)
(* Besides every array of length at most MaxSortLen, the inputs hold the   *)
(* arrays of length SmallArray + 1 that repeat a shorter one, for the      *)
(* branch of sort that goes to quickSort.                                  *)
(***************************************************************************)
SortVals == {Num(n) : n \in (-1)..MaxSortVal}

\* the array of length n that repeats arr
Cycle(arr, n) == [k \in 1..n |-> arr[((k - 1) % Len(arr)) + 1]]

ShortArrays == SeqsUpTo(SortVals, MaxSortLen)

SortArrays ==
  ShortArrays \cup {Cycle(arr, length) : arr \in ShortArrays \ {<<>>},
                                        length \in {SmallArray, SmallArray + 1}}

Comparators == {Fn(k) : k \in NumBodies}

IdleCall(arr, target, compare) ==
  [fn |-> "", arr |-> arr, target |-> target, compare |-> compare,
   out |-> Returned(<<>>), ret |-> 0]

\* the array to sort is array 1 of the memory; call.arr records its elements
\* at the call
InitSort ==
  /\ objs = <<>>
  /\ last = NoCall
  /\ call \in {IdleCall(arr, Undefined, compare) :
                 arr \in SortArrays, compare \in Comparators}
  /\ mem = <<call.arr>>

Ran(fn, out) == call' = [call EXCEPT !.fn = fn, !.out = out]

\* Fault injection for C24: a sort that hands back the input array itself
\* when it has at most one element
NewArray_ShortInputReturned(m, value) ==
  IF Len(value) <= 1 THEN [mem |-> m, ret |-> 1]
  ELSE [mem |-> Append(m, value), ret |-> Len(m) + 1]

\* the array a Sorting function returns: the copy [...arr] it worked on
\* (quickSort, heapSort, insertionSort), the array merge built from slices
\* (mergeSort) or new Array(arr.length) (countingSort); also [...arr] when
\* arr.length <= 1.  No function assigns to an element of arr.
NewArray(m, value) == [mem |-> Append(m, value), ret |-> Len(m) + 1]

\* a Sorting function ran: what it threw or the array it returned
RanSort(fn, out) ==
  LET new == NewArray(mem, out.value)
  IN  IF out.thrown # ""
      THEN Ran(fn, out) /\ UNCHANGED mem
      ELSE /\ call' = [call EXCEPT !.fn = fn, !.out = out, !.ret = new.ret]
           /\ mem' = new.mem

CallQuickSort ==
  /\ call.fn = ""
  /\ RanSort("quickSort", Sorting_quickSort(call.arr, call.compare))
  /\ UNCHANGED <<objs, last>>

CallMergeSort ==
  /\ call.fn = ""
  /\ RanSort("mergeSort", Sorting_mergeSort(call.arr, call.compare))
  /\ UNCHANGED <<objs, last>>

CallHeapSort ==
  /\ call.fn = ""
  /\ RanSort("heapSort", Sorting_heapSort(call.arr, call.compare))
  /\ UNCHANGED <<objs, last>>

CallInsertionSort ==
  /\ call.fn = ""
  /\ RanSort("insertionSort", Sorting_insertionSort(call.arr, call.compare))
  /\ UNCHANGED <<objs, last>>

\* countingSort takes no comparator and orders numerically
CallCountingSort ==
  /\ call.fn = ""
  /\ call.compare = Fn(1)
  /\ RanSort("countingSort", Sorting_countingSort(call.arr))
  /\ UNCHANGED <<objs, last>>

CallSort ==
  /\ call.fn = ""
  /\ RanSort("sort", Sorting_sort(call.arr, call.compare))
  /\ UNCHANGED <<objs, last>>

NextSort ==
  \/ CallQuickSort
  \/ CallMergeSort
  \/ CallHeapSort
  \/ CallInsertionSort
  \/ CallCountingSort
  \/ CallSort

SpecSort == InitSort /\ [][NextSort]_vars

(***************************************************************************)
(* SpecSearch: one call of a Searching function on an array (sorted or     *)
(* not), a target and a comparator drawn by the initial states.            *)
(***************************************************************************)
SearchVals == {Num(n) : n \in 0..MaxSearchVal}

SearchTargets == {Num(n) : n \in (-1)..(MaxSearchVal + 1)}

\* the array of the given length that starts at 0 and goes up by the
\* differences of pattern, repeated
RECURSIVE Climb(_, _)
Climb(pattern, length) ==
  IF length <= 1 THEN <<Num(0)>>
  ELSE LET shorter == Climb(pattern, length - 1)
       IN  Append(shorter,
                  Num(shorter[length - 1].v
                        + pattern[((length - 2) % Len(pattern)) + 1]))

\* arrays at and just past the limit of search, sorted or not, evenly
\* spaced or not, and one that holds null in front of numbers
LongArrays ==
  {Climb(pattern, length) :
     pattern \in SeqsUpTo((-1)..MaxSearchVal, MaxPattern) \ {<<>>},
     length \in {LinearSearchLimit, LinearSearchLimit + 1}}
  \cup {[Climb(<<1>>, LinearSearchLimit + 1) EXCEPT ![1] = Null]}

\* the call of the example in binarySearch's documentation and the README
DocumentedInputs == {<<[k \in 1..5 |-> Num(k)], Num(3)>>}

SearchInputs ==
  {<<arr, target>> : arr \in SeqsUpTo(SearchVals, MaxSearchLen),
                     target \in SearchTargets}
  \cup DocumentedInputs
  \cup UNION {{<<arr, target>> :
                 target \in SearchTargets \cup {arr[k] : k \in 1..Len(arr)}
                              \cup {Str(1)}} :
              arr \in LongArrays}

\* the array to search is array 1 of the memory
InitSearch ==
  /\ objs = <<>>
  /\ last = NoCall
  /\ call \in {[IdleCall(input[1], input[2], compare) EXCEPT
                  !.out = SearchResult(Undefined, -1, 0)] :
                 input \in SearchInputs, compare \in Comparators}
  /\ mem = <<call.arr>>

CallBinarySearch ==
  /\ call.fn = ""
  /\ Ran("binarySearch", Searching_binarySearch(call.arr, call.target, call.compare))
  /\ UNCHANGED <<objs, mem, last>>

CallLinearSearch ==
  /\ call.fn = ""
  /\ Ran("linearSearch", Searching_linearSearch(call.arr, call.target, call.compare))
  /\ UNCHANGED <<objs, mem, last>>

CallJumpSearch ==
  /\ call.fn = ""
  /\ Ran("jumpSearch", Searching_jumpSearch(call.arr, call.target, call.compare))
  /\ UNCHANGED <<objs, mem, last>>

\* interpolationSearch takes no comparator
CallInterpolationSearch ==
  /\ call.fn = ""
  /\ call.compare = Fn(1)
  /\ Ran("interpolationSearch", Searching_interpolationSearch(call.arr, call.target))
  /\ UNCHANGED <<objs, mem, last>>

CallExponentialSearch ==
  /\ call.fn = ""
  /\ Ran("exponentialSearch",
         Searching_exponentialSearch(call.arr, call.target, call.compare))
  /\ UNCHANGED <<objs, mem, last>>

CallSearch ==
  /\ call.fn = ""
  /\ Ran("search", Searching_search(call.arr, call.target, call.compare))
  /\ UNCHANGED <<objs, mem, last>>

NextSearch ==
  \/ CallBinarySearch
  \/ CallLinearSearch
  \/ CallJumpSearch
  \/ CallInterpolationSearch
  \/ CallExponentialSearch
  \/ CallSearch

SpecSearch == InitSearch /\ [][NextSearch]_vars

(***************************************************************************)
(* SpecArrays: a program that holds one array and hands it to one function *)
(* of the Sorting suite or of the Searching suite.                         *)
(***************************************************************************)
InitArrays == InitSort \/ InitSearch

NextArrays == NextSort \/ NextSearch

SpecArrays == InitArrays /\ [][NextArrays]_vars

(***************************************************************************)
(* SpecFrom: a program that hands one array, which may hold null and       *)
(* undefined, to the from of a heap class or of PriorityQueue.             *)
(***************************************************************************)
InitFrom ==
  /\ objs = <<>>
  /\ mem = <<>>
  /\ last = NoCall
  /\ call \in {IdleCall(elements, Undefined, compare) :
                 elements \in SeqsUpTo(HeapVals \cup {Null, Undefined}, MaxFrom),
                 compare \in Comparators}

\* MinHeap.from, MaxHeap.from, CustomHeap.from, BinaryHeap.from
CallHeapFrom ==
  /\ call.fn = ""
  /\ \E cfg \in HeapConfigs :
       LET out == Heap_from(objs, mem, cfg.cls, cfg.compareFn, cfg.type, call.arr)
       IN  /\ objs' = out.objs
           /\ mem' = out.mem
           /\ last' = CallRecord("from", 0, Undefined, call.arr, <<>>, out, <<>>)
           /\ call' = [call EXCEPT !.fn = cfg.cls]

CallQueueFrom ==
  /\ call.fn = ""
  /\ LET out == PriorityQueue_from(objs, mem, call.arr, call.compare)
     IN  /\ objs' = out.objs
         /\ mem' = out.mem
         /\ last' = CallRecord("from", 0, Undefined, call.arr, <<>>, out, <<>>)
         /\ call' = [call EXCEPT !.fn = "PriorityQueue"]

NextFrom == CallHeapFrom \/ CallQueueFrom

SpecFrom == InitFrom /\ [][NextFrom]_vars

(***************************************************************************)
(* SpecPair: a CustomHeap(c) at reference 1 and a PriorityQueue(c) at      *)
(* reference 2, built empty with the same comparator c and driven by the   *)
(* same operations: add with enqueue, remove with dequeue.  Each reference *)
(* is replaced by the instance its call returns.  last records the heap's  *)
(* call and call the queue's, with the comparator c of the construction.   *)
(***************************************************************************)
QueueRecord(compare, op, out) ==
  [compare |-> compare, op |-> op, thrown |-> out.thrown,
   element |-> out.element]

InitPair ==
  \E compare \in Comparators :
    LET heap == Heap_constructor(<<>>, <<>>, "CustomHeap", compare, "")
        queue == PriorityQueue_constructor(heap.objs, heap.mem, compare)
    IN  /\ objs = queue.objs
        /\ mem = queue.mem
        /\ last = NoCall
        /\ call = QueueRecord(compare, "", queue)

\* both references move to the instances returned, or stay when the call
\* threw
PairStore(heapOut, queueOut) ==
  LET heapRef == IF heapOut.thrown = "" THEN heapOut.ret ELSE 1
      queueRef == IF queueOut.thrown = "" THEN queueOut.ret ELSE 2
  IN  /\ objs' = <<[heapOut.objs[heapRef] EXCEPT !.elements = 1],
                   [queueOut.objs[queueRef] EXCEPT !.elements = 2]>>
      /\ mem' = <<heapOut.mem[heapOut.objs[heapRef].elements],
                  queueOut.mem[queueOut.objs[queueRef].elements]>>

PairAdd ==
  /\ Heap_size(objs, mem, 1) < MaxPairSize
  /\ \E element \in HeapVals \cup {Null, Undefined} :
       LET heapOut == Heap_add(objs, mem, 1, element)
           queueOut == PriorityQueue_enqueue(objs, mem, 2, element)
       IN  /\ PairStore(heapOut, queueOut)
           /\ last' = CallRecord("add", 1, element, <<>>, mem[1], heapOut, <<>>)
           /\ call' = QueueRecord(call.compare, "enqueue", queueOut)

PairRemove ==
  LET heapOut == Heap_remove(objs, mem, 1)
      queueOut == PriorityQueue_dequeue(objs, mem, 2)
  IN  /\ PairStore(heapOut, queueOut)
      /\ last' = CallRecord("remove", 1, Undefined, <<>>, mem[1], heapOut, <<>>)
      /\ call' = QueueRecord(call.compare, "dequeue", queueOut)

NextPair == PairAdd \/ PairRemove

SpecPair == InitPair /\ [][NextPair]_vars

(***************************************************************************)
(* SpecMaxQueue: a program that holds one MaxPriorityQueue reference q,    *)
(* built with a comparator c or with none, and keeps replacing it by the   *)
(* queue a method returns.  The store holds the inner PriorityQueue at     *)
(* reference 1 and q at reference 2; call records c.                       *)
(***************************************************************************)
KeepMaxObjs(out) ==
  LET queue == out.objs[out.ret]
  IN  <<[out.objs[queue.queue] EXCEPT !.elements = 1],
        [queue EXCEPT !.queue = 1]>>

KeepMaxMem(out) == <<out.mem[out.objs[out.objs[out.ret].queue].elements]>>

InitMaxQueue ==
  \E arg \in {Undefined} \cup Comparators :
    LET out == MaxPriorityQueue_constructor(<<>>, <<>>, arg)
    IN  /\ objs = KeepMaxObjs(out)
        /\ mem = KeepMaxMem(out)
        /\ last = NoCall
        /\ call = QueueRecord(DefaultCompare(arg), "", out)

MaxChainEnqueue ==
  /\ Len(mem[1]) < MaxQueueSize
  /\ \E element \in HeapVals \cup {Null, Undefined} :
       LET out == MaxPriorityQueue_enqueue(objs, mem, 2, element)
       IN  /\ last' = CallRecord("enqueue", 2, element, <<>>, mem[1], out, <<>>)
           /\ IF out.thrown # ""
              THEN UNCHANGED <<objs, mem>>
              ELSE objs' = KeepMaxObjs(out) /\ mem' = KeepMaxMem(out)
  /\ UNCHANGED call

MaxChainDequeue ==
  /\ LET out == MaxPriorityQueue_dequeue(objs, mem, 2)
     IN  /\ last' = CallRecord("dequeue", 2, Undefined, <<>>, mem[1], out, <<>>)
         /\ objs' = KeepMaxObjs(out)
         /\ mem' = KeepMaxMem(out)
  /\ UNCHANGED call

NextMaxQueue == MaxChainEnqueue \/ MaxChainDequeue

SpecMaxQueue == InitMaxQueue /\ [][NextMaxQueue]_vars

(***************************************************************************)
(* SpecCircular: a program that constructs one CircularQueue q with some   *)
(* capacity and keeps replacing it by the queue a method returns.  call    *)
(* records the capacity asked for, the elements given to enqueue in the    *)
(* order of the calls, and how many of them a dequeue returned.            *)
(***************************************************************************)
Capacities == (-1)..MaxCapacity

KeepCircularObjs(out) == <<[out.objs[out.ret] EXCEPT !.elements = 1]>>

KeepCircularMem(out) == <<out.mem[out.objs[out.ret].elements]>>

InitCircular ==
  \E capacity \in Capacities :
    LET out == CircularQueue_constructor(<<>>, <<>>, capacity)
    IN  /\ objs = out.objs
        /\ mem = out.mem
        /\ last = CallRecord("constructor", 0, Num(capacity), <<>>, <<>>, out, <<>>)
        /\ call = [capacity |-> capacity, arrived |-> <<>>, dequeued |-> 0]

CircularEnqueue ==
  /\ objs # <<>>
  /\ Len(call.arrived) < MaxArrivals
  /\ \E element \in HeapVals :
       LET out == CircularQueue_enqueue(objs, mem, 1, element)
       IN  /\ objs' = KeepCircularObjs(out)
           /\ mem' = KeepCircularMem(out)
           /\ last' = CallRecord("enqueue", 1, element, <<>>, mem[1], out, <<>>)
           /\ call' = [call EXCEPT !.arrived = Append(@, element)]

CircularDequeue ==
  /\ objs # <<>>
  /\ LET out == CircularQueue_dequeue(objs, mem, 1)
     IN  /\ objs' = KeepCircularObjs(out)
         /\ mem' = KeepCircularMem(out)
         /\ last' = CallRecord("dequeue", 1, Undefined, <<>>, mem[1], out, <<>>)
         /\ call' = [call EXCEPT !.dequeued = @ + (IF mem[1] = <<>> THEN 0 ELSE 1)]

NextCircular == CircularEnqueue \/ CircularDequeue

SpecCircular == InitCircular /\ [][NextCircular]_vars

(***************************************************************************)
(* SpecTree: a program that holds one BinarySearchTree t, built from       *)
(* new BinarySearchTree() by replacing t with the tree a method returns.   *)
(* The store keeps the receiver of the last call at reference 1 and t at   *)
(* the last reference, with every node made so far.  call holds the sorted *)
(* sequence of the values t should hold and the number of calls made.      *)
(***************************************************************************)
TreeVals == {Num(n) : n \in 1..MaxTreeVal}

\* the sorted sequence seq with value put behind the values not above it
RECURSIVE SortedInsert(_, _)
SortedInsert(seq, value) ==
  IF seq = <<>> THEN <<value>>
  ELSE IF value.v < Head(seq).v THEN <<value>> \o seq
  ELSE <<Head(seq)>> \o SortedInsert(Tail(seq), value)

\* seq without one occurrence of value, seq itself when it has none
RECURSIVE WithoutOne(_, _)
WithoutOne(seq, value) ==
  IF seq = <<>> THEN <<>>
  ELSE IF Head(seq) = value THEN Tail(seq)
  ELSE <<Head(seq)>> \o WithoutOne(Tail(seq), value)

InitTree ==
  /\ objs = BinarySearchTree_constructor(<<>>, <<>>).objs
  /\ mem = <<>>
  /\ last = NoCall
  /\ call = [held |-> <<>>, calls |-> 0]

\* t = t.insert(value) or t = t.remove(value) ran
TreeCall(op, value, out, held) ==
  /\ objs' = <<objs[Len(objs)], out.objs[out.ret]>>
  /\ mem' = out.mem
  /\ last' = CallRecord(op, Len(objs), value, <<>>,
                        BinarySearchTree_iterator(objs, mem, Len(objs)),
                        Outcome(out.objs, out.mem, "", 2, Undefined), <<>>)
  /\ call' = [held |-> held, calls |-> call.calls + 1]

TreeInsert ==
  /\ call.calls < MaxTreeCalls
  /\ \E value \in TreeVals :
       TreeCall("insert", value,
                BinarySearchTree_insert(objs, mem, Len(objs), value),
                SortedInsert(call.held, value))

TreeRemove ==
  /\ call.calls < MaxTreeCalls
  /\ \E value \in TreeVals :
       TreeCall("remove", value,
                BinarySearchTree_remove(objs, mem, Len(objs), value),
                WithoutOne(call.held, value))

NextTree == TreeInsert \/ TreeRemove

SpecTree == InitTree /\ [][NextTree]_vars

(***************************************************************************)
(* SpecGeneral: a program that holds one GeneralTree t, built from         *)
(* new GeneralTree() by replacing t with the tree a method returns.  objs  *)
(* holds the receiver of the last call and then t; call counts the calls.  *)
(***************************************************************************)
GeneralVals == {Num(n) : n \in 1..MaxGeneralVal}

InitGeneral ==
  /\ objs = <<GeneralTree_constructor>>
  /\ mem = <<>>
  /\ last = NoCall
  /\ call = 0

GeneralInsert ==
  /\ call < MaxGeneralCalls
  /\ \E value \in GeneralVals :
       /\ objs' = <<objs[Len(objs)], GeneralTree_insert(objs[Len(objs)], value)>>
       /\ last' = [NoCall EXCEPT !.op = "insert", !.src = <<value>>]
  /\ call' = call + 1
  /\ UNCHANGED mem

GeneralInsertChild ==
  /\ call < MaxGeneralCalls
  /\ \E parentValue \in GeneralVals, childValue \in GeneralVals :
       /\ objs' = <<objs[Len(objs)],
                    GeneralTree_insertChild(objs[Len(objs)], parentValue, childValue)>>
       /\ last' = [NoCall EXCEPT !.op = "insertChild",
                                 !.src = <<parentValue, childValue>>]
  /\ call' = call + 1
  /\ UNCHANGED mem

NextGeneral == GeneralInsert \/ GeneralInsertChild

SpecGeneral == InitGeneral /\ [][NextGeneral]_vars

(***************************************************************************)
(* SpecLists: a program that holds one list t, a LinkedList or a           *)
(* DoublyLinkedList built from the empty list by replacing t with the list *)
(* a method returns.  The store keeps the receiver of the last call at     *)
(* reference 1 and t at the last reference, with every node made so far;   *)
(* call counts the calls.                                                  *)
(***************************************************************************)
ListVals == {Num(n) : n \in 1..MaxListVal}

InitLists ==
  /\ \E cls \in {"LinkedList", "DoublyLinkedList"} :
       objs = List_constructor(<<>>, <<>>, cls).objs
  /\ mem = <<>>
  /\ last = NoCall
  /\ call = 0

\* t = t.op(value) ran
ListCall(op, value, out) ==
  /\ objs' = <<objs[Len(objs)], out.objs[out.ret]>>
  /\ mem' = out.mem
  /\ last' = CallRecord(op, Len(objs), value, <<>>,
                        List_iterator(objs, mem, Len(objs)), out, <<>>)
  /\ call' = call + 1

ListPrepend ==
  /\ call < MaxListCalls
  /\ \E value \in ListVals :
       ListCall("prepend", value,
                IF objs[Len(objs)].cls = "LinkedList"
                THEN LinkedList_prepend(objs, mem, Len(objs), value)
                ELSE DoublyLinkedList_prepend(objs, mem, Len(objs), value))

ListAppend ==
  /\ call < MaxListCalls
  /\ \E value \in ListVals :
       ListCall("append", value,
                IF objs[Len(objs)].cls = "LinkedList"
                THEN LinkedList_append(objs, mem, Len(objs), value)
                ELSE DoublyLinkedList_append(objs, mem, Len(objs), value))

ListRemove ==
  /\ call < MaxListCalls
  /\ \E value \in ListVals :
       ListCall("remove", value,
                IF objs[Len(objs)].cls = "LinkedList"
                THEN LinkedList_remove(objs, mem, Len(objs), value)
                ELSE DoublyLinkedList_remove(objs, mem, Len(objs), value))

ListReverse ==
  /\ call < MaxListCalls
  /\ ListCall("reverse", Undefined,
              IF objs[Len(objs)].cls = "LinkedList"
              THEN LinkedList_reverse(objs, mem, Len(objs))
              ELSE DoublyLinkedList_reverse(objs, mem, Len(objs)))

NextLists == ListPrepend \/ ListAppend \/ ListRemove \/ ListReverse

SpecLists == InitLists /\ [][NextLists]_vars

(***************************************************************************)
(* SpecTrie: the tries that insert calls build from one empty Trie; the    *)
(* store keeps every Trie made and every TrieNode.  call[ref] is the set   *)
(* of the words given to the insert calls that led to the Trie ref.        *)
(***************************************************************************)
TrieChars == {"a", "b", "A"}

TrieWords == SeqsUpTo(TrieChars, MaxWordLen)

TrieRefs == 1..Len(objs)

InitTrie ==
  /\ objs = Trie_constructor(<<>>, <<>>).objs
  /\ mem = Trie_constructor(<<>>, <<>>).mem
  /\ last = NoCall
  /\ call = <<{}>>

TrieInsert ==
  /\ Len(objs) < MaxTries
  /\ \E this \in TrieRefs, word \in TrieWords :
       LET out == Trie_insert(objs, mem, this, word)
       IN  /\ objs' = out.objs
           /\ mem' = out.mem
           /\ last' = CallRecord("insert", this, Undefined, word, <<>>, out, <<>>)
           /\ call' = Append(call, call[this] \cup {word})

NextTrie == TrieInsert

SpecTrie == InitTrie /\ [][NextTrie]_vars

(***************************************************************************)
(* What the claims speak of.                                               *)
(***************************************************************************)
\* the number of positions of arr that hold x
RECURSIVE Count(_, _)
Count(arr, x) ==
  IF Len(arr) = 0 THEN 0
  ELSE (IF arr[1] = x THEN 1 ELSE 0) + Count(Tail(arr), x)

Elements(arr) == {arr[k] : k \in 1..Len(arr)}

\* a and b hold the same elements the same number of times
IsPermutation(a, b) ==
  /\ Len(a) = Len(b)
  /\ \A x \in Elements(a) \cup Elements(b) : Count(a, x) = Count(b, x)

\* every index with a child in range compares <= 0 with that child
HeapOrdered(obj, elements) ==
  \A i \in 0..(Len(elements) - 1) :
    \A c \in {2 * i + 1, 2 * i + 2} :
      c < Len(elements) =>
        Le0(Heap_compare(obj, At(elements, i), At(elements, c)))

\* the elements that h = h.remove().heap returns, repeated until h.isEmpty()
RECURSIVE Drain(_, _)
Drain(o, m) ==
  IF Heap_isEmpty(o, m, 1) THEN <<>>
  ELSE LET out == Heap_remove(o, m, 1)
       IN  <<out.element>> \o Drain(KeepObjs(out), KeepMem(out))

\* size(), peek() and the iteration sequence of an instance
View(o, m, ref) ==
  [size |-> Len(ElementsOf(o, m, ref)),
   peek |-> At(ElementsOf(o, m, ref), 0),
   iteration |->
     IF o[ref].cls \in HeapClasses
     THEN Heap_iterator(o[ref], ElementsOf(o, m, ref))
     ELSE PriorityQueue_iterator(
            IF o[ref].cls = "MaxPriorityQueue" THEN o[o[ref].queue] ELSE o[ref],
            ElementsOf(o, m, ref))]

\* some element of arr compares equal to target
SomeEqual(arr, target, compare) ==
  \E k \in 1..Len(arr) : Eq0(Call(compare, arr[k], target))

\* the references of the arrays that instances hold
ArrayHolders == {r \in Refs : objs[r].elements # 0}

(***************************************************************************)
(* C1.  Heap invariant: in every heap reachable from the empty constructor *)
(* or from(array) by add and remove, every index i with a child c in range *)
(* satisfies compare(elements[i], elements[c]) <= 0.                       *)
(***************************************************************************)
C1_HeapInvariant == objs # <<>> => HeapOrdered(objs[1], mem[1])

\* an add whose element rose from the third level to the root
C1_Witness ==
  /\ last.op = "add"
  /\ last.thrown = ""
  /\ Len(mem[1]) >= 4
  /\ mem[1][1] = last.arg
  /\ last.pre[1] # last.arg

C3_SortCorrect ==
  /\ call.fn \in {"quickSort", "mergeSort", "heapSort", "insertionSort", "sort"} =>
       /\ call.out.thrown = ""
       /\ Sorting_isSorted(call.out.value, call.compare)
       /\ IsPermutation(call.out.value, call.arr)
  /\ (call.fn = "countingSort" /\ ~SomeNegative(call.arr)) =>
       /\ call.out.thrown = ""
       /\ Sorting_isSorted(call.out.value, Fn(1))
       /\ IsPermutation(call.out.value, call.arr)

\* sort on an unsorted array longer than SmallArray, with elements of equal
\* priority that differ
C3_Witness ==
  /\ call.fn = "sort"
  /\ Len(call.arr) > SmallArray
  /\ call.compare = Fn(3)
  /\ ~Sorting_isSorted(call.arr, call.compare)
  /\ call.out.value # call.arr

(***************************************************************************)
(* C4.  On an array sorted under the comparator, binarySearch, jumpSearch  *)
(* and exponentialSearch return an index i with compare(arr[i], target)    *)
(* = 0 and element arr[i] when some element compares equal to the target,  *)
(* and index -1 with element undefined when none does.                     *)
(***************************************************************************)
C4_SortedSearch ==
  (/\ call.fn \in {"binarySearch", "jumpSearch", "exponentialSearch"}
   /\ Sorting_isSorted(call.arr, call.compare)) =>
    /\ call.out.thrown = ""
    /\ IF SomeEqual(call.arr, call.target, call.compare)
       THEN /\ call.out.index \in 0..(Len(call.arr) - 1)
            /\ ~call.out.half
            /\ Eq0(Call(call.compare, At(call.arr, call.out.index), call.target))
            /\ call.out.element = At(call.arr, call.out.index)
       ELSE /\ call.out.index = -1
            /\ call.out.element = Undefined

\* exponentialSearch finds its target past the first doubling, in an array
\* with duplicates
C4_Witness ==
  /\ call.fn = "exponentialSearch"
  /\ Len(call.arr) = 4
  /\ call.arr[1] = call.arr[2]
  /\ call.arr[1] # call.target
  /\ Sorting_isSorted(call.arr, call.compare)
  /\ call.out.index >= 2

(***************************************************************************)
(* C5.  On every ascending numeric array, runs of equal values included,   *)
(* interpolationSearch returns an index i with arr[i] = target when the    *)
(* target occurs, and index -1 with element undefined when it does not.    *)
(***************************************************************************)
C5_InterpolationSearch ==
  (/\ call.fn = "interpolationSearch"
   /\ Sorting_isSorted(call.arr, Fn(1))) =>
    IF call.target \in Elements(call.arr)
    THEN /\ call.out.index \in 0..(Len(call.arr) - 1)
         /\ At(call.arr, call.out.index) = call.target
         /\ call.out.element = call.target
    ELSE /\ call.out.index = -1
         /\ call.out.element = Undefined

(***************************************************************************)
(* C6.  Round trip: draining X.from(arr) by repeated remove() yields       *)
(* arr.length elements, a permutation of arr in non-decreasing order under *)
(* the heap's comparator, equal to Sorting.sort(arr, comparator) up to the *)
(* order of elements of equal priority; and every remove() returns an      *)
(* element e with compare(e, y) <= 0 for every y left in the heap.         *)
(***************************************************************************)
C6_RoundTrip ==
  /\ last.op = "from" =>
       LET compare == ComparatorOf(objs[1])
           drained == Drain(objs, mem)
           sorted == Sorting_sort(last.src, compare).value
       IN  /\ Len(drained) = Len(last.src)
           /\ IsPermutation(drained, last.src)
           /\ Sorting_isSorted(drained, compare)
           /\ \A k \in 1..Len(drained) : Eq0(Call(compare, drained[k], sorted[k]))
  /\ (last.op = "remove" /\ last.pre # <<>>) =>
       \A k \in 1..Len(mem[1]) :
         Le0(Heap_compare(objs[1], last.element, mem[1][k]))

\* from on an unsorted array of four elements that the heapify loop reorders
C6_Witness ==
  /\ last.op = "from"
  /\ Len(last.src) = 4
  /\ ~Sorting_isSorted(last.src, ComparatorOf(objs[1]))
  /\ mem[1] # last.src
  /\ Drain(objs, mem) # last.src

(***************************************************************************)
(* C7.  clear() on any heap returns a heap of the same class and           *)
(* comparator with size() = 0, isEmpty() and peek() = undefined.           *)
(***************************************************************************)
C7_ClearEmpties ==
  last.op = "clear" =>
    /\ Heap_size(objs, mem, 1) = 0
    /\ Heap_isEmpty(objs, mem, 1)
    /\ Heap_peek(objs, mem, 1) = Undefined

(***************************************************************************)
(* C8.  countingSort raises 'Counting sort only works with non-negative    *)
(* integers' for every array with a negative element, whatever its length, *)
(* and returns no result then.                                             *)
(***************************************************************************)
C8_NegativeRaises ==
  (call.fn = "countingSort" /\ SomeNegative(call.arr)) =>
    call.out.thrown = "Counting sort only works with non-negative integers"

(***************************************************************************)
(* C9.  new PriorityQueue(c) and new MaxPriorityQueue(c) raise TypeError   *)
(* for every supplied c that is not a function: a non-empty string, an     *)
(* object, and the falsy values null, 0, false and the empty string.       *)
(***************************************************************************)
C9_RejectsNonFunction ==
  (/\ last.op \in {"new PriorityQueue", "new MaxPriorityQueue"}
   /\ last.arg.t \notin {"undefined", "function"}) =>
    last.thrown = "TypeError"

(***************************************************************************)
(* C10.  add(null), add(undefined), enqueue(null) and enqueue(undefined)   *)
(* raise TypeError, produce no new instance and leave the receiver as it   *)
(* was.                                                                    *)
(***************************************************************************)
C10_RejectsNullish ==
  [][(last'.op \in {"add", "enqueue"} /\ IsNullish(last'.arg)) =>
       /\ last'.thrown = "TypeError"
       /\ last'.ret = 0
       /\ objs' = objs
       /\ mem' = mem]_vars

\* enqueue(undefined) on a MaxPriorityQueue that holds an element
C10_Witness ==
  /\ last.op = "enqueue"
  /\ last.arg = Undefined
  /\ last.this \in MaxQueueRefs
  /\ last.pre # <<>>
  /\ last.thrown = "TypeError"
  /\ View(objs, mem, last.this).size = Len(last.pre)

(***************************************************************************)
(* C11.  binarySearch and jumpSearch throw their 'Array must be sorted'    *)
(* error on every array with an adjacent pair compare(arr[i-1], arr[i])    *)
(* > 0, whatever the target and wherever the pair lies, before any probe   *)
(* of the search proper; on sorted input they never throw.                 *)
(***************************************************************************)
C11_UnsortedRaises ==
  call.fn \in {"binarySearch", "jumpSearch"} =>
    IF \E i \in 1..(Len(call.arr) - 1) :
         Gt0(Call(call.compare, call.arr[i], call.arr[i + 1]))
    THEN /\ call.out.thrown =
              (IF call.fn = "binarySearch"
               THEN "Array must be sorted for binary search"
               ELSE "Array must be sorted for jump search")
         /\ call.out.comparisons = 0
         /\ call.out.calls = 0
    ELSE call.out.thrown = ""

\* jumpSearch throws on an array whose only descent is its last pair and
\* whose first element is the target
C11_Witness ==
  /\ call.fn = "jumpSearch"
  /\ Len(call.arr) = 4
  /\ call.arr[1] = call.target
  /\ ~Gt0(Call(call.compare, call.arr[1], call.arr[2]))
  /\ ~Gt0(Call(call.compare, call.arr[2], call.arr[3]))
  /\ Gt0(Call(call.compare, call.arr[3], call.arr[4]))
  /\ call.out.thrown = "Array must be sorted for jump search"

\* the elements of arr that compare equal to x, in the order arr holds them
EqualKeyed(arr, x, compare) ==
  LET Same(e) == Eq0(Call(compare, e, x)) IN SelectSeq(arr, Same)

(***************************************************************************)
(* C12.  mergeSort and insertionSort are stable: elements that compare     *)
(* equal appear in the output in the relative order the input holds them   *)
(* in; countingSort likewise places equal keys in input order.             *)
(***************************************************************************)
C12_Stable ==
  (/\ call.fn \in {"mergeSort", "insertionSort", "countingSort"}
   /\ call.out.thrown = "") =>
    \A x \in Elements(call.arr) :
      EqualKeyed(call.out.value, x, call.compare)
        = EqualKeyed(call.arr, x, call.compare)

\* mergeSort moved two different elements of equal priority, the larger
\* first in the input, in front of an element of higher priority
C12_Witness ==
  /\ call.fn = "mergeSort"
  /\ call.compare = Fn(3)
  /\ call.arr = <<Num(2), Num(1), Num(0)>>
  /\ call.out.value = <<Num(1), Num(0), Num(2)>>

\* what contains, containsPrefix and findWordsWithPrefix return on a Trie,
\* for every string
TrieView(o, m, ref) ==
  [s \in TrieWords |->
     [contains |-> Trie_contains(o, m, ref, s),
      containsPrefix |-> Trie_containsPrefix(o, m, ref, s),
      findWordsWithPrefix |-> Trie_findWordsWithPrefix(o, m, ref, s)]]

(***************************************************************************)
(* C13.  Trie.insert leaves the receiver unchanged: for any trie t1 built  *)
(* by inserts, after t2 = t1.insert(w), t1.contains(s),                    *)
(* t1.containsPrefix(s) and t1.findWordsWithPrefix(s) return for every     *)
(* string s what they returned before the call.                            *)
(***************************************************************************)
C13_TrieInsertFrame ==
  [][\A ref \in TrieRefs :
       TrieView(objs', mem', ref) = TrieView(objs, mem, ref)]_vars

\* the consecutive differences of an array of numbers, their sum and the
\* sum of their squares
DiffAt(arr, i) == arr[i + 1].v - arr[i].v

DiffSum(arr) == SumOf([i \in 1..(Len(arr) - 1) |-> DiffAt(arr, i)])

DiffSquares(arr) ==
  SumOf([i \in 1..(Len(arr) - 1) |-> DiffAt(arr, i) * DiffAt(arr, i)])

\* variance < mean / 2 for the n = arr.length - 1 differences, with
\* mean = sum / n and variance = squares / n - mean^2, multiplied by 2 * n^2
LowVariance(arr) ==
  LET n == Len(arr) - 1
  IN  2 * n * DiffSquares(arr) - 2 * DiffSum(arr) * DiffSum(arr)
        < n * DiffSum(arr)

\* the function the claim says search hands the call to
RoutedResult(arr, target, compare) ==
  IF Len(arr) <= 10
  THEN Searching_linearSearch(arr, target, compare)
  ELSE IF \E i \in 1..(Len(arr) - 1) : Gt0(Call(compare, arr[i], arr[i + 1]))
  THEN Searching_linearSearch(arr, target, compare)
  ELSE IF /\ target.t = "number"
          /\ \A k \in 1..Len(arr) : arr[k].t = "number"
          /\ LowVariance(arr)
  THEN Searching_interpolationSearch(arr, target)
  ELSE Searching_binarySearch(arr, target, compare)

(***************************************************************************)
(* C14.  search(arr, target, cmp) returns the element, index and           *)
(* comparisons of linearSearch when arr.length <= 10 or arr is not sorted  *)
(* under cmp, of interpolationSearch when arr is longer, sorted, all       *)
(* numbers with a number target and its consecutive differences have       *)
(* variance < mean / 2, and of binarySearch otherwise; the routing scan    *)
(* adds nothing to comparisons.                                            *)
(***************************************************************************)
C14_SearchRouting ==
  call.fn = "search" =>
    LET routed == RoutedResult(call.arr, call.target, call.compare)
    IN  /\ call.out.thrown = routed.thrown
        /\ call.out.element = routed.element
        /\ call.out.index = routed.index
        /\ call.out.half = routed.half
        /\ call.out.comparisons = routed.comparisons

\* search on eleven sorted numbers with differences 1, 2, 1, 2, ... finds
\* a target in the upper half with fewer comparisons than its index
C14_Witness ==
  /\ call.fn = "search"
  /\ Len(call.arr) = 11
  /\ call.compare = Fn(1)
  /\ DiffAt(call.arr, 1) # DiffAt(call.arr, 2)
  /\ LowVariance(call.arr)
  /\ call.out.index > 5
  /\ call.out.comparisons < call.out.index

(***************************************************************************)
(* C15.  sort(arr, cmp) returns the array insertionSort(arr, cmp) returns  *)
(* when arr.length <= 10 (length 10 included) and the array                *)
(* quickSort(arr, cmp) returns when arr.length > 10 (length 11 included);  *)
(* nothing else about the input changes the choice.                        *)
(***************************************************************************)
C15_SortRouting ==
  call.fn = "sort" =>
    call.out = (IF Len(call.arr) <= 10
                THEN Sorting_insertionSort(call.arr, call.compare)
                ELSE Sorting_quickSort(call.arr, call.compare))

\* sort on an array of length 10 on which insertionSort and quickSort
\* return different arrays
C15_Witness ==
  /\ call.fn = "sort"
  /\ Len(call.arr) = 10
  /\ call.out = Sorting_insertionSort(call.arr, call.compare)
  /\ call.out # Sorting_quickSort(call.arr, call.compare)

(***************************************************************************)
(* C16.  On a sorted array of n elements and any target, present or        *)
(* absent, the comparisons c that binarySearch returns satisfy             *)
(* c <= ceil(log2(n + 1)): c = 0 when n = 0 and 2^(c-1) <= n otherwise.    *)
(***************************************************************************)
C16_BinaryComparisons ==
  (/\ call.fn = "binarySearch"
   /\ call.out.thrown = "") =>
    IF Len(call.arr) = 0 THEN call.out.comparisons = 0
    ELSE \/ call.out.comparisons = 0
         \/ 2 ^ (call.out.comparisons - 1) <= Len(call.arr)

\* binarySearch makes four comparisons on eleven elements that do not hold
\* the target
C16_Witness ==
  /\ call.fn = "binarySearch"
  /\ Len(call.arr) = 11
  /\ call.out.thrown = ""
  /\ call.out.index = -1
  /\ call.out.comparisons = 4

\* the indices of arr whose element compares equal to target
Matches(arr, target, compare) ==
  {k \in 0..(Len(arr) - 1) : Eq0(Call(compare, arr[k + 1], target))}

(***************************************************************************)
(* C17.  linearSearch on any array, sorted or not, returns the smallest    *)
(* index k whose element compares equal to the target, with comparisons    *)
(* k + 1; when no element matches it returns index -1, element undefined   *)
(* and comparisons arr.length.                                             *)
(***************************************************************************)
C17_LinearFirstMatch ==
  call.fn = "linearSearch" =>
    /\ call.out.thrown = ""
    /\ IF Matches(call.arr, call.target, call.compare) # {}
       THEN /\ call.out.index \in Matches(call.arr, call.target, call.compare)
            /\ \A k \in Matches(call.arr, call.target, call.compare) :
                 call.out.index <= k
            /\ call.out.element = call.arr[call.out.index + 1]
            /\ call.out.comparisons = call.out.index + 1
       ELSE /\ call.out.index = -1
            /\ call.out.element = Undefined
            /\ call.out.comparisons = Len(call.arr)

\* linearSearch on an unsorted array that holds two elements equal to the
\* target, the first of them past index 0
C17_Witness ==
  /\ call.fn = "linearSearch"
  /\ ~Sorting_isSorted(call.arr, call.compare)
  /\ Cardinality(Matches(call.arr, call.target, call.compare)) >= 2
  /\ call.out.index >= 1

(***************************************************************************)
(* C18.  For binarySearch, linearSearch, jumpSearch and exponentialSearch, *)
(* the comparisons of the result equal the number of times the search      *)
(* itself invoked the comparator (the validation scan's invocations        *)
(* excluded), on every input on which the function returns.                *)
(***************************************************************************)
C18_ComparisonsCountCalls ==
  (/\ call.fn \in {"binarySearch", "linearSearch", "jumpSearch",
                   "exponentialSearch"}
   /\ call.out.thrown = "") =>
    call.out.comparisons = call.out.calls

(***************************************************************************)
(* C19.  binarySearch([1, 2, 3, 4, 5], 3) with the default comparator      *)
(* returns { element: 3, index: 2, comparisons: 2 }.                       *)
(***************************************************************************)
C19_DocumentedExample ==
  (/\ call.fn = "binarySearch"
   /\ call.arr = <<Num(1), Num(2), Num(3), Num(4), Num(5)>>
   /\ call.target = Num(3)
   /\ call.compare = Fn(1)) =>
    /\ call.out.thrown = ""
    /\ call.out.element = Num(3)
    /\ call.out.index = 2
    /\ call.out.comparisons = 2

(***************************************************************************)
(* C20.  Size conservation, for every heap variant and reachable heap h:   *)
(* h.add(x).size() = h.size() + 1 for every non-null x; h.remove() on a    *)
(* non-empty h returns a heap of size h.size() - 1; h.remove() on an empty *)
(* h throws nothing and returns element undefined and a heap of size 0.    *)
(***************************************************************************)
C20_SizeConservation ==
  /\ (last.op = "add" /\ ~IsNullish(last.arg)) =>
       /\ last.thrown = ""
       /\ Heap_size(objs, mem, 1) = Len(last.pre) + 1
  /\ last.op = "remove" =>
       /\ last.thrown = ""
       /\ IF last.pre # <<>>
          THEN Heap_size(objs, mem, 1) = Len(last.pre) - 1
          ELSE /\ last.element = Undefined
               /\ Heap_size(objs, mem, 1) = 0

\* remove() on a CustomHeap of three elements returned a heap of two
C20_Witness ==
  /\ last.op = "remove"
  /\ Len(last.pre) = 3
  /\ Heap_size(objs, mem, 1) = 2
  /\ objs[1].cls = "CustomHeap"

(***************************************************************************)
(* C21.  Iterating a reachable heap yields the sequence of elements that   *)
(* repeated remove() returns from that heap until it is empty, element for *)
(* element and in the same order among elements of equal priority; a       *)
(* second iteration of the same heap yields the same sequence.             *)
(***************************************************************************)
C21_IterationIsDrain ==
  /\ objs # <<>> => Heap_iterator(objs[1], mem[1]) = Drain(objs, mem)
  /\ last.op = "iterate" =>
       /\ last.yielded = Drain(objs, mem)
       /\ last.yielded = Heap_iterator(objs[1], mem[1])

\* an iteration of a CustomHeap of four elements, two of them different and
\* of equal priority, that yields an order other than the array's
C21_Witness ==
  /\ last.op = "iterate"
  /\ objs[1].cls = "CustomHeap"
  /\ objs[1].compareFn = Fn(3)
  /\ Len(last.yielded) = 4
  /\ last.yielded # mem[1]
  /\ \E i, j \in 1..4 :
       /\ mem[1][i] # mem[1][j]
       /\ Eq0(Heap_compare(objs[1], mem[1][i], mem[1][j]))

(***************************************************************************)
(* C22.  A PriorityQueue(c) driven by enqueue/dequeue and a CustomHeap(c)  *)
(* driven by the corresponding add/remove, both from empty, stay in lock   *)
(* step: after every step they have the same size(), peek(), returned      *)
(* element and iteration sequence; dequeue/remove on empty return element  *)
(* undefined and an empty structure that still uses c.                     *)
(***************************************************************************)
C22_LockStep ==
  /\ PriorityQueue_size(objs, mem, 2) = Heap_size(objs, mem, 1)
  /\ PriorityQueue_peek(objs, mem, 2) = Heap_peek(objs, mem, 1)
  /\ call.thrown = last.thrown
  /\ call.element = last.element
  /\ PriorityQueue_iterator(objs[2], mem[2]) = Heap_iterator(objs[1], mem[1])
  /\ (last.op = "remove" /\ last.pre = <<>>) =>
       /\ last.thrown = ""
       /\ call.element = Undefined
       /\ PriorityQueue_size(objs, mem, 2) = 0
       /\ Heap_size(objs, mem, 1) = 0
  /\ objs[2].compareFn = call.compare
  /\ objs[1].compareFn = call.compare

\* a dequeue and remove, under a comparator with ties, from a queue and a
\* heap that hold four elements not all of one priority
C22_Witness ==
  /\ call.op = "dequeue"
  /\ call.compare = Fn(3)
  /\ Len(last.pre) = 4
  /\ \E i, j \in 1..4 : last.pre[i] # last.pre[j]
  /\ \E i \in 1..4 : ~Eq0(Call(Fn(3), last.pre[i], last.pre[1]))
  /\ PriorityQueue_size(objs, mem, 2) = 3

\* the elements that q = q.dequeue().queue returns from the MaxPriorityQueue
\* at reference 2, repeated until q.isEmpty()
RECURSIVE MaxDrain(_, _)
MaxDrain(o, m) ==
  IF m[1] = <<>> THEN <<>>
  ELSE LET out == MaxPriorityQueue_dequeue(o, m, 2)
       IN  <<out.element>> \o MaxDrain(KeepMaxObjs(out), KeepMaxMem(out))

\* x is maximal under compare among the elements of arr
Maximal(x, arr, compare) ==
  \A k \in 1..Len(arr) :
    LET r == Call(compare, x, arr[k]) IN r.t = "number" /\ r.v >= 0

(***************************************************************************)
(* C23.  For a MaxPriorityQueue built with comparator c (default numeric), *)
(* after any sequence of enqueue and dequeue, peek() and dequeue() return  *)
(* an element maximal under c among the elements held, and draining yields *)
(* a non-increasing sequence under c: the comparator of the construction   *)
(* is in force in every queue derived by enqueue or dequeue.               *)
(***************************************************************************)
C23_MaxQueueOrder ==
  LET drained == MaxDrain(objs, mem)
  IN  /\ mem[1] # <<>> =>
           /\ PriorityQueue_peek(objs, mem, 1) \in Elements(mem[1])
           /\ Maximal(PriorityQueue_peek(objs, mem, 1), mem[1], call.compare)
      /\ (last.op = "dequeue" /\ last.pre # <<>>) =>
           /\ last.element \in Elements(last.pre)
           /\ Maximal(last.element, last.pre, call.compare)
      /\ IsPermutation(drained, mem[1])
      /\ \A i, j \in 1..Len(drained) :
           i < j => Maximal(drained[i], <<drained[j]>>, call.compare)
      /\ objs[1].compareFn = NegClosure(call.compare)

\* a queue built with the reversed comparator took an enqueue, which put the
\* new element at the front, and holds three elements, two of them of
\* different priorities
C23_Witness ==
  /\ call.compare = Fn(2)
  /\ last.op = "enqueue"
  /\ last.thrown = ""
  /\ Len(mem[1]) = 3
  /\ mem[1][1] = last.arg
  /\ \E i, j \in 1..3 : Lt0(Call(Fn(2), mem[1][i], mem[1][j]))

SortingFunctions ==
  {"quickSort", "mergeSort", "heapSort", "insertionSort", "countingSort", "sort"}

C25_InsertedStaysContained ==
  \A ref \in TrieRefs : \A word \in call[ref] : Trie_contains(objs, mem, ref, word)

(***************************************************************************)
(* C26.  For a CircularQueue of integer capacity c >= 1, after any         *)
(* sequence of enqueue and dequeue: size() <= c; the contents are the last *)
(* elements that arrived, in arrival order; enqueue on a full queue drops  *)
(* exactly the oldest element and keeps the size at c; dequeue returns the *)
(* oldest element held; isFull() holds exactly when size() = c; every      *)
(* derived queue has capacity c.  Constructing with a capacity below 1     *)
(* throws.                                                                 *)
(***************************************************************************)
C26_CircularQueue ==
  LET c == call.capacity
      held == IF objs = <<>> THEN <<>> ELSE CircularQueue_iterator(objs, mem, 1)
      n == Len(call.arrived)
  IN  /\ c < 1 => objs = <<>> /\ last.thrown = "Capacity must be at least 1"
      /\ c >= 1 =>
           /\ objs # <<>> /\ last.thrown = ""
           /\ CircularQueue_size(objs, mem, 1) = Len(held)
           /\ CircularQueue_size(objs, mem, 1) <= c
           /\ CircularQueue_getCapacity(objs, mem, 1) = c
           /\ CircularQueue_isFull(objs, mem, 1) <=> CircularQueue_size(objs, mem, 1) = c
           /\ held = SubSeq(call.arrived, n - Len(held) + 1, n)
           /\ last.op = "enqueue" =>
                held = Append(IF Len(last.pre) = c THEN Tail(last.pre) ELSE last.pre,
                              last.arg)
           /\ (last.op = "dequeue" /\ last.pre # <<>>) =>
                /\ last.element = Head(last.pre)
                /\ held = Tail(last.pre)
           /\ (last.op = "dequeue" /\ last.pre = <<>>) =>
                /\ last.element = Undefined
                /\ held = <<>>

\* enqueue on a full queue of capacity 2 whose two elements differ
C26_Witness ==
  /\ call.capacity = 2
  /\ last.op = "enqueue"
  /\ Len(last.pre) = 2
  /\ last.pre[1] # last.pre[2]
  /\ mem[1] = <<last.pre[2], last.arg>>
  /\ call.dequeued > 0

\* arr is an ascending array of numbers
AscendingNumbers(arr) ==
  /\ \A k \in 1..Len(arr) : arr[k].t = "number"
  /\ \A k \in 1..(Len(arr) - 1) : arr[k].v <= arr[k + 1].v

(***************************************************************************)
(* C27.  interpolationSearch never evaluates the probe formula with a zero *)
(* divisor: for every ascending array of numbers and every target, each    *)
(* time the formula is evaluated, with low < high, arr[low] < arr[high]    *)
(* holds, the probe position is a number and it lies in low .. high.       *)
(***************************************************************************)
C27_ProbeDivisor ==
  (/\ call.fn = "interpolationSearch"
   /\ AscendingNumbers(call.arr)
   /\ call.target.t = "number") =>
    \A k \in 1..Len(call.out.probes) :
      LET probe == call.out.probes[k]
      IN  /\ probe.low < probe.high
          /\ probe.divisor > 0
          /\ probe.pos.t = "number"
          /\ probe.pos.v >= probe.low
          /\ probe.pos.v <= probe.high

(***************************************************************************)
(* C28.  search(arr, target, cmp) reports a match, an index other than -1, *)
(* exactly when linearSearch(arr, target, cmp) does, also when it hands    *)
(* the call to interpolationSearch.                                        *)
(***************************************************************************)
C28_SearchAgreesWithLinear ==
  call.fn = "search" =>
    /\ call.out.thrown = ""
    /\ call.out.index # -1
         <=> Searching_linearSearch(call.arr, call.target, call.compare).index # -1

(***************************************************************************)
(* C29.  No heap or priority queue holds null or undefined: MinHeap.from,  *)
(* MaxHeap.from, CustomHeap.from, BinaryHeap.from and PriorityQueue.from   *)
(* throw a TypeError when the array they are given holds null or           *)
(* undefined, as add and enqueue do for one element, and what they return  *)
(* holds neither.                                                          *)
(***************************************************************************)
C29_FromRejectsNullish ==
  last.op = "from" =>
    /\ (\E k \in 1..Len(last.src) : IsNullish(last.src[k])) =>
         last.thrown = "TypeError" /\ last.ret = 0
    /\ last.thrown = "" =>
         \A k \in 1..Len(ElementsOf(objs, mem, last.ret)) :
           ~IsNullish(ElementsOf(objs, mem, last.ret)[k])

(***************************************************************************)
(* C30.  exponentialSearch throws the sortedness error on every array with *)
(* an adjacent pair compare(arr[i-1], arr[i]) > 0, before any probe of the *)
(* search proper, as binarySearch and jumpSearch do: it never returns a    *)
(* SearchResult for an unsorted array.                                     *)
(***************************************************************************)
C30_ExponentialUnsortedRaises ==
  (/\ call.fn = "exponentialSearch"
   /\ \E i \in 1..(Len(call.arr) - 1) :
        Gt0(Call(call.compare, call.arr[i], call.arr[i + 1]))) =>
    /\ call.out.thrown # ""
    /\ call.out.comparisons = 0
    /\ call.out.calls = 0

\* the calls partition(low, high) that sort(low, high) of quickSort makes on
\* result, in the order of the calls
RECURSIVE PartitionCalls(_, _, _, _)
PartitionCalls(result, compare, low, high) ==
  IF low < high
  THEN LET part == partition(result, compare, low, high)
           left == QuickSortRange(part.result, compare, low, part.p)
       IN  <<[low |-> low, high |-> high, p |-> part.p, i |-> part.i, j |-> part.j]>>
             \o PartitionCalls(part.result, compare, low, part.p)
             \o PartitionCalls(left, compare, part.p + 1, high)
  ELSE <<>>

\* partition(low, high) keeps i and j in low .. high and returns low <= p < high
PartitionInRange(part, low, high) ==
  /\ part.i >= low /\ part.i <= high
  /\ part.j >= low /\ part.j <= high
  /\ part.p >= low /\ part.p < high

(***************************************************************************)
(* C31.  quickSort terminates on every array with a valid comparator: each *)
(* call partition(low, high) with low < high keeps the scan indices i and  *)
(* j in low .. high and returns p with low <= p < high, so that            *)
(* sort(low, p) and sort(p + 1, high) are on strictly shorter ranges.      *)
(* The first conjunct is about partition on every range of the array the   *)
(* caller holds, the second about the calls quickSort made.                *)
(***************************************************************************)
C31_QuickSortTerminates ==
  /\ \A low, high \in 0..(Len(call.arr) - 1) :
       low < high =>
         PartitionInRange(partition(call.arr, call.compare, low, high), low, high)
  /\ call.fn = "quickSort" =>
       /\ call.out.thrown = ""
       /\ Len(call.out.value) = Len(call.arr)
       /\ LET made == PartitionCalls(call.arr, call.compare, 0, Len(call.arr) - 1)
          IN  \A k \in 1..Len(made) :
                /\ made[k].low < made[k].high
                /\ PartitionInRange(made[k], made[k].low, made[k].high)

\* quickSort of an array of SmallArray + 1 elements, not all equal, made
\* more than SmallArray calls of partition
C31_Witness ==
  /\ call.fn = "quickSort"
  /\ Len(call.arr) = SmallArray + 1
  /\ call.arr[1] # call.arr[2]
  /\ Len(PartitionCalls(call.arr, call.compare, 0, Len(call.arr) - 1)) >= SmallArray

\* the PriorityQueue whose heap a queue iterates: the inner queue of a
\* MaxPriorityQueue, which iterates with yield* this.queue
IteratedQueue(o, ref) ==
  IF o[ref].cls = "MaxPriorityQueue" THEN o[o[ref].queue] ELSE o[ref]

(***************************************************************************)
(* C32.  Iterating a PriorityQueue or MaxPriorityQueue built through the   *)
(* public API ends after yielding exactly size() elements: the iterator    *)
(* never meets a non-empty working queue whose dequeue() returns the       *)
(* element undefined, where its loop would stop advancing.                 *)
(***************************************************************************)
C32_QueueIterationEnds ==
  /\ \A ref \in QueueRefs \cup MaxQueueRefs :
       LET run == PriorityQueue_iteratorLoop(IteratedQueue(objs, ref),
                                             ElementsOf(objs, mem, ref))
       IN  /\ ~run.stuck
           /\ Len(run.yielded) = Len(ElementsOf(objs, mem, ref))
  /\ (last.op = "iterate" /\ last.this \in QueueRefs \cup MaxQueueRefs) =>
       Len(last.yielded) = Len(last.pre)

\* a PriorityQueue of two elements was iterated
C32_Witness ==
  /\ last.op = "iterate"
  /\ last.this \in QueueRefs
  /\ Len(last.pre) = 2
  /\ Len(last.yielded) = 2

(***************************************************************************)
(* C33.  On an empty array every search function (binarySearch,            *)
(* linearSearch, jumpSearch, interpolationSearch, exponentialSearch,       *)
(* search) returns index -1, element undefined and comparisons 0, and does *)
(* not invoke the comparator.                                              *)
(***************************************************************************)
C33_EmptyArraySearch ==
  (call.fn # "" /\ call.arr = <<>>) =>
    /\ call.out.thrown = ""
    /\ call.out.index = -1
    /\ call.out.element = Undefined
    /\ call.out.comparisons = 0
    /\ call.out.calls = 0

(***************************************************************************)
(* C34.  Whenever a search function returns a SearchResult, on sorted or   *)
(* unsorted input: index is -1 and element undefined, or index is an       *)
(* integer with 0 <= index < arr.length, element is arr[index] and it      *)
(* compares equal to the target; exponentialSearch returns no index built  *)
(* from the offset i / 2 = 0.5.                                            *)
(***************************************************************************)
C34_ResultWellFormed ==
  (call.fn # "" /\ call.out.thrown = "") =>
    IF call.out.index = -1
    THEN call.out.element = Undefined /\ ~call.out.half
    ELSE /\ ~call.out.half
         /\ call.out.index >= 0
         /\ call.out.index < Len(call.arr)
         /\ call.out.element = call.arr[call.out.index + 1]
         /\ Eq0(Call(call.compare, call.out.element, call.target))

\* exponentialSearch found the target past the first doubling, in a slice
\* that does not start at the front
C34_Witness ==
  /\ call.fn = "exponentialSearch"
  /\ call.out.thrown = ""
  /\ Len(call.arr) = 4
  /\ call.out.index = 3
  /\ call.arr[3] # call.arr[4]

(***************************************************************************)
(* C35.  BinarySearchTree refines a sorted multiset: after any sequence of *)
(* insert and remove from the empty tree, iteration yields in              *)
(* non-decreasing order exactly the values inserted, duplicates kept, less *)
(* one occurrence for each remove of a value that was held; size() is the  *)
(* number of values yielded; contains(v) is true exactly when v is held;   *)
(* and the receiver of each call is left as it was.                        *)
(***************************************************************************)
C35_TreeIsSortedMultiset ==
  LET t == Len(objs)
  IN  /\ BinarySearchTree_iterator(objs, mem, t) = call.held
      /\ BinarySearchTree_size(objs, mem, t) = Len(call.held)
      /\ \A v \in TreeVals :
           BinarySearchTree_contains(objs, mem, t, v) <=> v \in Elements(call.held)
      /\ last.op # "" =>
           /\ BinarySearchTree_iterator(objs, mem, 1) = last.pre
           /\ BinarySearchTree_size(objs, mem, 1) = Len(last.pre)

\* remove(v) took the root of a tree whose root has two children, the right
\* one with a left child, and three values stayed in the tree
C35_Witness ==
  /\ last.op = "remove"
  /\ objs[1].root # 0
  /\ mem[objs[1].root].value = last.arg
  /\ mem[objs[1].root].left # 0
  /\ mem[objs[1].root].right # 0
  /\ mem[mem[objs[1].root].right].left # 0
  /\ Len(call.held) = 3

(***************************************************************************)
(* C36.  GeneralTree.insertChild(p, c) returns a tree with exactly one     *)
(* node more than the receiver, c being the last child of a node holding   *)
(* p, whenever p occurs in the receiver, also when several nodes hold p,   *)
(* and a tree with the receiver's nodes and size when p does not occur;    *)
(* insert(v) on a tree that has a root returns a tree with the receiver's  *)
(* contents.                                                               *)
(***************************************************************************)
C36_InsertChildAddsOne ==
  LET receiver == objs[1]
      t == objs[Len(objs)]
      before == GeneralTree_levelOrder(receiver)
      after == GeneralTree_levelOrder(t)
  IN  /\ last.op = "insertChild" =>
           IF last.src[1] \in Elements(before)
           THEN /\ GeneralTree_size(t) = GeneralTree_size(receiver) + 1
                /\ Len(after) = Len(before) + 1
                /\ IsPermutation(after, Append(before, last.src[2]))
           ELSE /\ t.root = receiver.root
                /\ GeneralTree_size(t) = GeneralTree_size(receiver)
      /\ (last.op = "insert" /\ receiver.root # <<>>) =>
           /\ t.root = receiver.root
           /\ GeneralTree_size(t) = GeneralTree_size(receiver)

(***************************************************************************)
(* C37.  For every DoublyLinkedList built from the empty list by prepend,  *)
(* append, remove and reverse: reverseIterator() yields the forward        *)
(* iteration in reverse order, first() and last() are the first and last   *)
(* elements of the forward iteration (undefined when it is empty), and     *)
(* size() is its length.                                                   *)
(***************************************************************************)
C37_DoublyLinkedBothWays ==
  LET t == Len(objs)
      forward == List_iterator(objs, mem, t)
  IN  objs[t].cls = "DoublyLinkedList" =>
        /\ DoublyLinkedList_reverseIterator(objs, mem, t) = Reverse(forward)
        /\ List_first(objs, mem, t) = At(forward, 0)
        /\ DoublyLinkedList_last(objs, mem, t) = At(forward, Len(forward) - 1)
        /\ List_size(objs, mem, t) = Len(forward)

\* reverse of a DoublyLinkedList of three elements, the first and last of
\* which differ
C37_Witness ==
  /\ objs[Len(objs)].cls = "DoublyLinkedList"
  /\ last.op = "reverse"
  /\ Len(last.pre) = 3
  /\ last.pre[1] # last.pre[3]
  /\ List_iterator(objs, mem, Len(objs)) = Reverse(last.pre)

(***************************************************************************)
(* C38.  For LinkedList and DoublyLinkedList, remove(v) returns a list     *)
(* whose contents are the receiver's with only the first occurrence of v   *)
(* deleted and whose size() is one less; when v does not occur, or the     *)
(* list is empty, the returned list has the receiver's contents and size;  *)
(* in every case the receiver's own contents and size are unchanged, also  *)
(* when the returned list shares nodes with it.                            *)
(***************************************************************************)
C38_RemoveFirstOccurrence ==
  LET t == Len(objs)
      returned == List_iterator(objs, mem, t)
      occurs == \E i \in 1..Len(last.pre) : StrictEq(last.pre[i], last.arg)
  IN  last.op = "remove" =>
        /\ occurs => /\ returned = WithoutOne(last.pre, last.arg)
                      /\ List_size(objs, mem, t) = Len(last.pre) - 1
        /\ ~occurs => /\ returned = last.pre
                       /\ List_size(objs, mem, t) = Len(last.pre)
        /\ List_iterator(objs, mem, 1) = last.pre
        /\ List_size(objs, mem, 1) = Len(last.pre)

\* remove(v) on a LinkedList of three elements that holds v twice, not at
\* its head: the list returned holds the head and the second v
C38_Witness ==
  /\ objs[1].cls = "LinkedList"
  /\ last.op = "remove"
  /\ Len(last.pre) = 3
  /\ last.pre[1] # last.arg
  /\ last.pre[2] = last.arg
  /\ last.pre[3] = last.arg
  /\ List_iterator(objs, mem, Len(objs)) = <<last.pre[1], last.arg>>

====
